---- MODULE Spec2Model ----
(***************************************************************************)
(* A model of the SignalForge MCP server: the TTL cache service, the tool  *)
(* boundary of the facades, the on-demand crawl loop, the data-service     *)
(* cache keys, the lazy singletons of the process, the date parser and the *)
(* validators, and the news weight formula.                                *)
(*                                                                         *)
(* Each subsystem has its own variables, initial predicate and next-state  *)
(* relation; a specification runs one subsystem and leaves the others at   *)
(* rest.                                                                   *)
(***************************************************************************)
EXTENDS Integers, Sequences, FiniteSets, TLC

VARIABLES
    \* CacheService (services/cache_service.py)
    cache,          \* self._cache: key -> value
    timestamps,     \* self._timestamps: key -> write time
    now,            \* time.time(), in whole ticks
    cacheRet,       \* the last cache operation and what it returned
    written,        \* history: per key, the last set() not yet removed
    \* Tool facades (tools/*.py)
    toolCall,       \* the facade method invoked and what happened inside its body
    toolOutcome,    \* what the call gave back to its caller
    \* SystemManagementTools.trigger_crawl (tools/system.py)
    crawlPc,        \* "idle", "loop" (inside the for/while loops) or "done"
    ids,            \* the targeted platform ids, in config order
    crawl_i,        \* index of the platform being crawled (1-based)
    retries,        \* retries of the current platform
    success,        \* whether the current platform succeeded
    results,        \* platform id -> title -> ranks
    failed_ids,     \* platforms that exhausted their retries
    crawlResponse,  \* what trigger_crawl returned
    requests,       \* history: per platform, its attempts in order
    \* DataService cached queries (services/data_service.py)
    dsQueries,      \* the two queries of the scenario, or <<>> before they are chosen
    dsCall,         \* which of the two was called last (0: none yet)
    dsKeys,         \* the cache_key each query used, once it has been called
    dsServed,       \* what the last call gave back
    \* get_cache (services/cache_service.py), called by several threads
    global_cache,   \* _global_cache: 0 for None, else the instance
    gcPc,           \* per thread, where it stands in get_cache
    gcLocal,        \* per thread, the CacheService() it built and has not stored yet
    gcInstances,    \* how many CacheService objects have been built
    gcReturned,     \* history: every instance some call returned
    \* the process singletons (server.py, logging_config.py)
    settings,       \* _settings: NoSettings, or the loaded Settings
    LOGGER_CONFIGURED,
    sinkLevel,      \* the level the log sink was configured with ("" before)
    tools_instances,\* _tools_instances: facade name -> object
    srvHist,        \* history: loads, sink configurations, constructions
    srvReturn,      \* what the last _get_tools or run_server came to
    \* the date utilities (utils/date_parser.py, utils/validators.py)
    wall,           \* the wall clock datetime.now() reads: [y, m, d, tod]
    wallDays,       \* midnights the clock has passed since it was set
    dqPc,           \* where validate_date_query stands
    dqCall,         \* its arguments
    dqYear,         \* the year read for a slash date that names none
    dqParsed,       \* what parse_date_query returned
    dqRet,          \* what validate_date_query came to
    rangeCall,      \* the argument of the last validate_date_range
    rangeRet,       \* what it came to
    \* calculate_news_weight (tools/analytics.py)
    weightCall,     \* its arguments
    weightRet,      \* the weight it returned, as a fraction
    \* analyze_topic_lifecycle (tools/analytics.py)
    lifeCall,       \* the days of the window it read
    lifeRet,        \* what it returned
    \* validate_limit (utils/validators.py)
    limitCall,      \* its arguments
    limitRet,       \* what it came to
    \* analyze_keyword_cooccurrence (tools/analytics.py)
    coCall,         \* its arguments and today's titles
    coRet,          \* what it returned
    \* predict_trending_topics (tools/analytics.py)
    trendCall,      \* its arguments and the data of the four days
    trendRet,       \* what it returned
    \* detect_viral_topics (tools/analytics.py)
    viralCall,      \* its arguments and the keyword counts of the two days
    viralRet,       \* what it returned
    \* the health-check scripts
    sources_json,   \* the file sources.json
    newsRun,        \* the run of check_news_sources.py: what it loaded, fetched and reported
    healthRun,      \* the run of check_sources_health.py, with its exit status
    health_report,  \* the file health_report.json
    \* categorize_news (fetch_english_news.py)
    catCall,        \* the news items it was called with
    catRet,         \* the dict it returned
    \* DataQueryTools.get_trending_topics
    ttCall,         \* its arguments, and what today's files hold
    ttRet,          \* the dict it returned
    \* DataService.search_news_by_keyword
    searchCall,     \* its arguments and the files of the days
    searchRet,      \* what it returned or raised
    \* the tools documented with limit max 100
    docCall,        \* the tool, its limit argument and the number of items it found
    docRet,         \* the dict it returned
    \* parse_date_query on a weekday
    wdCall,         \* the clock and the two words of the query
    wdRet,          \* the datetime it returned
    \* DataService.get_latest_news
    latestCall,     \* the last call: its parameters, the clock, and the cache entry it met
    latestRet,      \* what the last call returned or raised, and whether it read the tree
    \* CacheService under threads
    lockHolder,     \* the thread inside a with-block, or 0
    thPc,           \* the statement each thread is at
    thOp,           \* the call each thread is in
    thKeys,         \* expired_keys of a cleanup_expired call
    thStats,        \* what the last get_stats returned
    \* repeated runs of check_news_sources
    runLog,         \* the runs so far: the file before, the sources loaded, the results, the file after
    \* search_news_unified
    uniPc,          \* where the call is: idle, loop, done
    uniCall,        \* the arguments, the day files, and the range searched
    uniDate,   \* the loop variable
    all_matches,    \* the matches collected so far
    uniVisited,     \* the days the loop body ran for, in order
    uniRet          \* the returned dict

cacheVars == <<cache, timestamps, now, cacheRet, written>>
toolVars == <<toolCall, toolOutcome>>
crawlVars == <<crawlPc, ids, crawl_i, retries, success, results, failed_ids,
               crawlResponse, requests>>

dsVars == <<dsQueries, dsCall, dsKeys, dsServed>>

gcVars == <<global_cache, gcPc, gcLocal, gcInstances, gcReturned>>
srvVars == <<settings, LOGGER_CONFIGURED, sinkLevel, tools_instances, srvHist, srvReturn>>

clockVars == <<wall, wallDays>>
dqVars == <<dqPc, dqCall, dqYear, dqParsed, dqRet>>
rangeVars == <<rangeCall, rangeRet>>
dateVars == <<clockVars, dqVars, rangeVars>>

weightVars == <<weightCall, weightRet>>

lifeVars == <<lifeCall, lifeRet>>

limitVars == <<limitCall, limitRet>>

coVars == <<coCall, coRet>>

trendVars == <<trendCall, trendRet>>

viralVars == <<viralCall, viralRet>>

healthVars == <<sources_json, newsRun, healthRun, health_report>>

catVars == <<catCall, catRet>>

ttVars == <<ttCall, ttRet>>

searchVars == <<searchCall, searchRet>>

docVars == <<docCall, docRet>>

wdVars == <<wdCall, wdRet>>

latestVars == <<latestCall, latestRet>>

threadVars == <<lockHolder, thPc, thOp, thKeys, thStats>>

runsVars == <<runLog>>

uniVars == <<uniPc, uniCall, uniDate, all_matches, uniVisited, uniRet>>

vars == <<cacheVars, toolVars, crawlVars, dsVars, gcVars, srvVars, dateVars, weightVars,
         lifeVars,
         limitVars,
         coVars,
         trendVars,
         viralVars,
         healthVars,
         catVars,
         ttVars,
         searchVars,
         docVars,
         wdVars,
         latestVars,
         threadVars,
         runsVars,
         uniVars>>

\* what the actions of one subsystem leave alone
cacheRest == <<toolVars, crawlVars, dsVars, gcVars, srvVars, dateVars, weightVars,
    lifeVars,
    limitVars,
    coVars,
    trendVars,
    viralVars,
    healthVars,
    catVars,
    ttVars,
    searchVars,
    docVars,
    wdVars,
    latestVars,
    threadVars,
    runsVars,
    uniVars>>
toolRest == <<cacheVars, crawlVars, dsVars, gcVars, srvVars, dateVars, weightVars,
    lifeVars,
    limitVars,
    coVars,
    trendVars,
    viralVars,
    healthVars,
    catVars,
    ttVars,
    searchVars,
    docVars,
    wdVars,
    latestVars,
    threadVars,
    runsVars,
    uniVars>>
crawlRest == <<cacheVars, toolVars, dsVars, gcVars, srvVars, dateVars, weightVars,
    lifeVars,
    limitVars,
    coVars,
    trendVars,
    viralVars,
    healthVars,
    catVars,
    ttVars,
    searchVars,
    docVars,
    wdVars,
    latestVars,
    threadVars,
    runsVars,
    uniVars>>
dsRest == <<toolVars, crawlVars, gcVars, srvVars, dateVars, weightVars,
    lifeVars,
    limitVars,
    coVars,
    trendVars,
    viralVars,
    healthVars,
    catVars,
    ttVars,
    searchVars,
    docVars,
    wdVars,
    latestVars,
    threadVars,
    runsVars,
    uniVars>>
gcRest == <<cacheVars, toolVars, crawlVars, dsVars, srvVars, dateVars, weightVars,
    lifeVars,
    limitVars,
    coVars,
    trendVars,
    viralVars,
    healthVars,
    catVars,
    ttVars,
    searchVars,
    docVars,
    wdVars,
    latestVars,
    threadVars,
    runsVars,
    uniVars>>
srvRest == <<cacheVars, toolVars, crawlVars, dsVars, gcVars, dateVars, weightVars,
    lifeVars,
    limitVars,
    coVars,
    trendVars,
    viralVars,
    healthVars,
    catVars,
    ttVars,
    searchVars,
    docVars,
    wdVars,
    latestVars,
    threadVars,
    runsVars,
    uniVars>>
dateRest == <<cacheVars, toolVars, crawlVars, dsVars, gcVars, srvVars, weightVars,
    lifeVars,
    limitVars,
    coVars,
    trendVars,
    viralVars,
    healthVars,
    catVars,
    ttVars,
    searchVars,
    docVars,
    wdVars,
    latestVars,
    threadVars,
    runsVars,
    uniVars>>
weightRest == <<cacheVars, toolVars, crawlVars, dsVars, gcVars, srvVars, dateVars,
    lifeVars,
    limitVars,
    coVars,
    trendVars,
    viralVars,
    healthVars,
    catVars,
    ttVars,
    searchVars,
    docVars,
    wdVars,
    latestVars,
    threadVars,
    runsVars,
    uniVars>>
lifeRest == <<cacheVars, toolVars, crawlVars, dsVars, gcVars, srvVars,
    dateVars, weightVars,
    limitVars,
    coVars,
    trendVars,
    viralVars,
    healthVars,
    catVars,
    ttVars,
    searchVars,
    docVars,
    wdVars,
    latestVars,
    threadVars,
    runsVars,
    uniVars>>
limitRest == <<cacheVars, toolVars, crawlVars, dsVars, gcVars, srvVars,
    dateVars, weightVars, lifeVars,
    coVars,
    trendVars,
    viralVars,
    healthVars,
    catVars,
    ttVars,
    searchVars,
    docVars,
    wdVars,
    latestVars,
    threadVars,
    runsVars,
    uniVars>>
coRest == <<cacheVars, toolVars, crawlVars, dsVars, gcVars, srvVars,
    dateVars, weightVars, lifeVars, limitVars,
    trendVars,
    viralVars,
    healthVars,
    catVars,
    ttVars,
    searchVars,
    docVars,
    wdVars,
    latestVars,
    threadVars,
    runsVars,
    uniVars>>
trendRest == <<cacheVars, toolVars, crawlVars, dsVars, gcVars, srvVars,
    dateVars, weightVars, lifeVars, limitVars, coVars,
    viralVars,
    healthVars,
    catVars,
    ttVars,
    searchVars,
    docVars,
    wdVars,
    latestVars,
    threadVars,
    runsVars,
    uniVars>>
viralRest == <<cacheVars, toolVars, crawlVars, dsVars, gcVars, srvVars,
    dateVars, weightVars, lifeVars, limitVars, coVars, trendVars,
    healthVars,
    catVars,
    ttVars,
    searchVars,
    docVars,
    wdVars,
    latestVars,
    threadVars,
    runsVars,
    uniVars>>
healthRest == <<cacheVars, toolVars, crawlVars, dsVars, gcVars, srvVars,
    dateVars, weightVars, lifeVars, limitVars, coVars, trendVars,
    viralVars,
    catVars,
    ttVars,
    searchVars,
    docVars,
    wdVars,
    latestVars,
    threadVars,
    runsVars,
    uniVars>>
catRest == <<cacheVars, toolVars, crawlVars, dsVars, gcVars, srvVars,
    dateVars, weightVars, lifeVars, limitVars, coVars, trendVars,
    viralVars, healthVars,
    ttVars,
    searchVars,
    docVars,
    wdVars,
    latestVars,
    threadVars,
    runsVars,
    uniVars>>
ttRest == <<toolVars, crawlVars, dsVars, gcVars, srvVars,
    dateVars, weightVars, lifeVars, limitVars, coVars, trendVars,
    viralVars, healthVars, catVars,
    searchVars,
    docVars,
    wdVars,
    latestVars,
    threadVars,
    runsVars,
    uniVars>>
searchRest == <<cacheVars, toolVars, crawlVars, dsVars, gcVars, srvVars,
    dateVars, weightVars, lifeVars, limitVars, coVars, trendVars,
    viralVars, healthVars, catVars, ttVars,
    docVars,
    wdVars,
    latestVars,
    threadVars,
    runsVars,
    uniVars>>
docRest == <<cacheVars, toolVars, crawlVars, dsVars, gcVars, srvVars,
    dateVars, weightVars, lifeVars, limitVars, coVars, trendVars,
    viralVars, healthVars, catVars, ttVars, searchVars,
    wdVars,
    latestVars,
    threadVars,
    runsVars,
    uniVars>>
wdRest == <<cacheVars, toolVars, crawlVars, dsVars, gcVars, srvVars,
    dateVars, weightVars, lifeVars, limitVars, coVars, trendVars,
    viralVars, healthVars, catVars, ttVars, searchVars, docVars,
    latestVars,
    threadVars,
    runsVars,
    uniVars>>
latestRest == <<toolVars, crawlVars, dsVars, gcVars, srvVars,
    dateVars, weightVars, lifeVars, limitVars, coVars, trendVars,
    viralVars, healthVars, catVars, ttVars, searchVars, docVars,
    wdVars,
    threadVars,
    runsVars,
    uniVars>>
threadRest == <<toolVars, crawlVars, dsVars, gcVars, srvVars,
    dateVars, weightVars, lifeVars, limitVars, coVars, trendVars,
    viralVars, healthVars, catVars, ttVars, searchVars, docVars,
    wdVars, latestVars,
    runsVars,
    uniVars>>
runsRest == <<cacheVars, toolVars, crawlVars, dsVars, gcVars, srvVars,
    dateVars, weightVars, lifeVars, limitVars, coVars, trendVars,
    viralVars, catVars, ttVars, searchVars, docVars,
    wdVars, latestVars, threadVars,
    uniVars>>
uniRest == <<cacheVars, toolVars, crawlVars, dsVars, gcVars, srvVars,
    dateVars, weightVars, lifeVars, limitVars, coVars, trendVars,
    viralVars, healthVars, catVars, ttVars, searchVars, docVars,
    wdVars, latestVars, threadVars, runsVars>>

(***************************************************************************)
(* Bounds of the model.                                                    *)
(***************************************************************************)
MaxTime == 4        \* the clock runs from 0 to MaxTime
MaxTtl == 2         \* ttl arguments range over 1..MaxTtl
MaxPlatforms == 2   \* platforms targeted by one trigger_crawl
MaxItems == 2       \* items in one response of the crawl API
NumThreads == 3     \* threads calling get_cache
MaxClockDays == 1   \* midnights the wall clock passes
MaxRanks == 3       \* ranks recorded for one news item
MaxMentions == 2    \* titles mentioning a topic on one day
MaxWords == 3       \* words of one title
MaxTitles == 2      \* titles read for one day
MaxKeywordCount == 6 \* occurrences of a keyword in one day
MaxFeedItems == 2    \* items of one feed
MaxSources == 2      \* sources listed in sources.json
MaxNews == 3         \* news items given to categorize_news

(***************************************************************************)
(* Generic helpers on finite maps.                                         *)
(***************************************************************************)
Remove(f, k) == [x \in DOMAIN f \ {k} |-> f[x]]

Put(f, k, v) == [x \in DOMAIN f \cup {k} |-> IF x = k THEN v ELSE f[x]]

EmptyMap == [x \in {} |-> 0]

(***************************************************************************)
(* CacheService                                                            *)
(***************************************************************************)
CacheKeys == {"k1", "k2"}

CacheValues == {[val |-> "v1"], [val |-> "v2"]}

Ttls == 1..MaxTtl

\* Python's None, as a cache result
NoneVal == [none |-> TRUE]

NoEntry == [entry |-> FALSE]

\* CacheService.get, under the lock: the value and the two maps afterwards
CacheGet_Lte(c, ts, clock, key, ttl) ==
    IF key \in DOMAIN c
    THEN IF clock - ts[key] <= ttl
         THEN [ret |-> c[key], cache |-> c, timestamps |-> ts]
         ELSE [ret |-> NoneVal, cache |-> Remove(c, key),
               timestamps |-> Remove(ts, key)]
    ELSE [ret |-> NoneVal, cache |-> c, timestamps |-> ts]

CacheGet(c, ts, clock, key, ttl) ==
    IF key \in DOMAIN c
    THEN IF clock - ts[key] < ttl
         THEN [ret |-> c[key], cache |-> c, timestamps |-> ts]
         ELSE [ret |-> NoneVal, cache |-> Remove(c, key),
               timestamps |-> Remove(ts, key)]
    ELSE [ret |-> NoneVal, cache |-> c, timestamps |-> ts]

\* CacheService.set, under the lock
CacheSet(c, ts, clock, key, value) ==
    [cache |-> Put(c, key, value), timestamps |-> Put(ts, key, clock)]

\* CacheService.cleanup_expired: the keys the sweep removes
ExpiredKeys(ts, clock, ttl) == {k \in DOMAIN ts : clock - ts[k] >= ttl}

\* CacheService.get_stats
CacheStats(c, ts, clock) ==
    [total_entries |-> Cardinality(DOMAIN c),
     oldest_entry_age |->
        IF DOMAIN ts # {}
        THEN clock - (CHOOSE m \in {ts[k] : k \in DOMAIN ts} :
                        \A k \in DOMAIN ts : m <= ts[k])
        ELSE 0,
     newest_entry_age |->
        IF DOMAIN ts # {}
        THEN clock - (CHOOSE m \in {ts[k] : k \in DOMAIN ts} :
                        \A k \in DOMAIN ts : m >= ts[k])
        ELSE 0]

OpRecord(op, key, ttl, ret, was) ==
    [op |-> op, key |-> key, ttl |-> ttl, ret |-> ret, was |-> was, at |-> now]

CacheInit ==
    /\ cache = EmptyMap
    /\ timestamps = EmptyMap
    /\ now = 0
    /\ cacheRet = OpRecord("init", "", 0, NoneVal, NoEntry)
    /\ written = [k \in CacheKeys |-> NoEntry]

Tick ==
    /\ now < MaxTime
    /\ now' = now + 1
    /\ UNCHANGED <<cache, timestamps, cacheRet, written, cacheRest>>

Get(key, ttl) ==
    LET r == CacheGet(cache, timestamps, now, key, ttl) IN
    /\ cache' = r.cache
    /\ timestamps' = r.timestamps
    /\ cacheRet' = OpRecord("get", key, ttl, r.ret, written[key])
    /\ written' = IF written[key] # NoEntry /\ now - written[key].t >= ttl
                  THEN [written EXCEPT ![key] = NoEntry]
                  ELSE written
    /\ UNCHANGED <<now, cacheRest>>

Set(key, value) ==
    LET r == CacheSet(cache, timestamps, now, key, value) IN
    /\ cache' = r.cache
    /\ timestamps' = r.timestamps
    /\ cacheRet' = OpRecord("set", key, 0, NoneVal, written[key])
    /\ written' = [written EXCEPT ![key] = [entry |-> TRUE, v |-> value, t |-> now]]
    /\ UNCHANGED <<now, cacheRest>>

Delete(key) ==
    /\ IF key \in DOMAIN cache
       THEN /\ cache' = Remove(cache, key)
            /\ timestamps' = Remove(timestamps, key)
            /\ cacheRet' = OpRecord("delete", key, 0, [deleted |-> TRUE], written[key])
       ELSE /\ UNCHANGED <<cache, timestamps>>
            /\ cacheRet' = OpRecord("delete", key, 0, [deleted |-> FALSE], written[key])
    /\ written' = [written EXCEPT ![key] = NoEntry]
    /\ UNCHANGED <<now, cacheRest>>

Clear ==
    /\ cache' = EmptyMap
    /\ timestamps' = EmptyMap
    /\ cacheRet' = OpRecord("clear", "", 0, NoneVal, NoEntry)
    /\ written' = [k \in CacheKeys |-> NoEntry]
    /\ UNCHANGED <<now, cacheRest>>

CleanupExpired(ttl) ==
    LET expired_keys == ExpiredKeys(timestamps, now, ttl) IN
    /\ cache' = [k \in DOMAIN cache \ expired_keys |-> cache[k]]
    /\ timestamps' = [k \in DOMAIN timestamps \ expired_keys |-> timestamps[k]]
    /\ cacheRet' = OpRecord("cleanup_expired", "", ttl,
                            [removed |-> Cardinality(expired_keys)], NoEntry)
    /\ written' = [k \in CacheKeys |->
                     IF written[k] # NoEntry /\ now - written[k].t >= ttl
                     THEN NoEntry ELSE written[k]]
    /\ UNCHANGED <<now, cacheRest>>

GetStats ==
    /\ cacheRet' = OpRecord("get_stats", "", 0,
                            CacheStats(cache, timestamps, now), NoEntry)
    /\ UNCHANGED <<cache, timestamps, now, written, cacheRest>>

CacheNext ==
    \/ Tick
    \/ \E k \in CacheKeys, ttl \in Ttls : Get(k, ttl)
    \/ \E k \in CacheKeys, v \in CacheValues : Set(k, v)
    \/ \E k \in CacheKeys : Delete(k)
    \/ Clear
    \/ \E ttl \in Ttls : CleanupExpired(ttl)
    \/ GetStats

(***************************************************************************)
(* The tool boundary: every public facade method is one try block with two *)
(* except clauses.                                                         *)
(***************************************************************************)
FacadeMethods ==
    {"DataQueryTools.get_latest_news", "DataQueryTools.search_news_by_keyword",
     "DataQueryTools.get_trending_topics", "DataQueryTools.get_news_by_date",
     "AnalyticsTools.analyze_data_insights_unified",
     "AnalyticsTools.analyze_topic_trend_unified",
     "AnalyticsTools.get_topic_trend_analysis", "AnalyticsTools.compare_platforms",
     "AnalyticsTools.analyze_keyword_cooccurrence", "AnalyticsTools.analyze_sentiment",
     "AnalyticsTools.find_similar_news", "AnalyticsTools.search_by_entity",
     "AnalyticsTools.generate_summary_report",
     "AnalyticsTools.get_platform_activity_stats",
     "AnalyticsTools.analyze_topic_lifecycle", "AnalyticsTools.detect_viral_topics",
     "AnalyticsTools.predict_trending_topics",
     "SearchTools.search_news_unified", "SearchTools.search_related_news_history",
     "SystemManagementTools.get_system_status", "SystemManagementTools.trigger_crawl"}

\* the domain errors (utils/errors.py) and some of the other exceptions a body raises
MCPErrorClasses ==
    {"MCPError", "InvalidParameterError", "DataNotFoundError", "CrawlTaskError"}

OtherExceptionClasses == {"ValueError", "KeyError", "FileNotFoundError"}

\* where in the try body the exception is raised
BodySteps == {"validate", "service", "format"}

NoException == [kind |-> "none"]

Exceptions ==
    [kind : {"raise"}, cls : MCPErrorClasses, suggestion : BOOLEAN, step : BodySteps]
    \cup [kind : {"raise"}, cls : OtherExceptionClasses, suggestion : {FALSE},
          step : BodySteps]

\* isinstance(e, handler class)
IsInstance(cls, handler) ==
    \/ handler = "Exception"
    \/ handler = "MCPError" /\ cls \in MCPErrorClasses

\* the except clauses of the method's try block, in order
FacadeHandlers_NoCatchAll(method) == <<"MCPError">>

FacadeHandlers(method) == <<"MCPError", "Exception">>

\* MCPError.to_dict
ToDict(e) ==
    IF e.suggestion
    THEN [code |-> e.cls, message |-> "message", suggestion |-> "suggestion"]
    ELSE [code |-> e.cls, message |-> "message"]

\* the body of the catch-all clause
InternalError(method, e) ==
    IF method = "SystemManagementTools.trigger_crawl"
    THEN [code |-> "INTERNAL_ERROR", message |-> "message", traceback |-> "traceback"]
    ELSE [code |-> "INTERNAL_ERROR", message |-> "message"]

\* a facade method run to its end: the first matching except clause decides
ToolBoundary(method, e) ==
    IF e.kind = "none"
    THEN [outcome |-> "returned", result |-> [success |-> TRUE]]
    ELSE LET hs == FacadeHandlers(method)
             matching == {i \in DOMAIN hs : IsInstance(e.cls, hs[i])}
         IN  IF matching = {}
             THEN [outcome |-> "raised", exc |-> e.cls]
             ELSE LET first == CHOOSE i \in matching : \A j \in matching : i <= j
                  IN  IF hs[first] = "MCPError"
                      THEN [outcome |-> "returned",
                            result |-> [success |-> FALSE, error |-> ToDict(e)]]
                      ELSE [outcome |-> "returned",
                            result |-> [success |-> FALSE,
                                        error |-> InternalError(method, e)]]

ToolInit ==
    /\ toolCall = [method |-> "", exc |-> NoException]
    /\ toolOutcome = [outcome |-> "none"]

FacadeCall(method, e) ==
    /\ toolCall' = [method |-> method, exc |-> e]
    /\ toolOutcome' = ToolBoundary(method, e)
    /\ UNCHANGED toolRest

ToolNext ==
    \E method \in FacadeMethods, e \in Exceptions \cup {NoException} :
        FacadeCall(method, e)

(***************************************************************************)
(* SystemManagementTools.trigger_crawl: the per-platform retry loop        *)
(***************************************************************************)
PlatformIds == {"p1", "p2", "p3"}

max_retries == 2

\* an item of the API's "items" list: its title, or an item with no "title" key
NoTitle == "<no title>"

Titles == {"t1", "t2"}

RECURSIVE SeqsUpTo(_, _)
SeqsUpTo(S, n) ==
    IF n = 0 THEN {<<>>}
    ELSE LET shorter == SeqsUpTo(S, n - 1)
         IN  shorter \cup {Append(q, x) : q \in {r \in shorter : Len(r) = n - 1}, x \in S}

ItemLists == SeqsUpTo(Titles \cup {NoTitle}, MaxItems)

\* the target lists: the platforms of config.yaml kept by the filter, without repeats
TargetLists ==
    {q \in SeqsUpTo(PlatformIds, MaxPlatforms) :
        Len(q) >= 1 /\ \A i, j \in DOMAIN q : i # j => q[i] # q[j]}

\* what one requests.get and the parsing of its body come to
Attempts ==
    [kind : {"network_error", "http_error", "bad_json", "bad_status"}, items : {<<>>}]
    \cup [kind : {"ok"}, items : ItemLists]

\* what stops trigger_crawl before its loop
StartFailures ==
    {"InvalidParameterError", "config_missing", "no_platforms", "platforms_not_in_config"}

\* the for loop over data_json["items"]: the titles parsed before the first item
\* without a title, each with the 1-based indexes it was seen at
RECURSIVE ParseItems(_, _, _)
ParseItems(items, index, acc) ==
    IF index > Len(items) THEN [titles |-> acc, raised |-> FALSE]
    ELSE IF items[index] = NoTitle THEN [titles |-> acc, raised |-> TRUE]
    ELSE LET title == items[index]
         IN  ParseItems(items, index + 1,
                        IF title \in DOMAIN acc
                        THEN Put(acc, title, Append(acc[title], index))
                        ELSE Put(acc, title, <<index>>))

\* the condition of the while loop
RetryLoopCond_IgnoreSuccess(r, ok) == r <= max_retries

RetryLoopCond(r, ok) == r <= max_retries /\ ~ok

CrawlInit ==
    /\ crawlPc = "idle"
    /\ ids = <<>>
    /\ crawl_i = 0
    /\ retries = 0
    /\ success = FALSE
    /\ results = EmptyMap
    /\ failed_ids = <<>>
    /\ crawlResponse = [success |-> FALSE, pending |-> TRUE]
    /\ requests = [p \in PlatformIds |-> <<>>]

\* validation or configuration fails: the except clauses return the failure
CrawlRejected(why) ==
    /\ crawlPc = "idle"
    /\ crawlPc' = "done"
    /\ crawlResponse' =
         [success |-> FALSE,
          error |-> IF why = "InvalidParameterError"
                    THEN [code |-> "InvalidParameterError", message |-> "message",
                          suggestion |-> "suggestion"]
                    ELSE [code |-> "CrawlTaskError", message |-> why,
                          suggestion |-> "suggestion"]]
    /\ UNCHANGED <<ids, crawl_i, retries, success, results, failed_ids, requests, crawlRest>>

\* the loop is entered with the first platform
CrawlStart(targets) ==
    /\ crawlPc = "idle"
    /\ crawlPc' = "loop"
    /\ ids' = targets
    /\ crawl_i' = 1
    /\ retries' = 0
    /\ success' = FALSE
    /\ results' = EmptyMap
    /\ failed_ids' = <<>>
    /\ UNCHANGED <<crawlResponse, requests, crawlRest>>

\* one pass of the while loop: the request, the parsing, or the except clause
CrawlAttempt(a) ==
    /\ crawlPc = "loop"
    /\ RetryLoopCond(retries, success)
    /\ LET id_value == ids[crawl_i]
           parsed == ParseItems(a.items, 1, EmptyMap)
           failed == a.kind # "ok" \/ parsed.raised
       IN  /\ requests' = [requests EXCEPT ![id_value] = Append(@, ~failed)]
           /\ results' = IF a.kind = "ok" THEN Put(results, id_value, parsed.titles)
                         ELSE results
           /\ success' = ~failed
           /\ retries' = IF failed THEN retries + 1 ELSE retries
           /\ failed_ids' = IF failed /\ retries + 1 > max_retries
                            THEN Append(failed_ids, id_value)
                            ELSE failed_ids
    /\ UNCHANGED <<crawlPc, ids, crawl_i, crawlResponse, crawlRest>>

\* the while loop is left: on to the next platform of the for loop
CrawlNextPlatform ==
    /\ crawlPc = "loop"
    /\ ~RetryLoopCond(retries, success)
    /\ crawl_i < Len(ids)
    /\ crawl_i' = crawl_i + 1
    /\ retries' = 0
    /\ success' = FALSE
    /\ UNCHANGED <<crawlPc, ids, results, failed_ids, crawlResponse, requests, crawlRest>>

\* the result dictionary, its keys in insertion order of results
CrawlData == {pt \in (DOMAIN results) \X Titles : pt[2] \in DOMAIN results[pt[1]]}

\* after the last platform: the response is built, saved when asked, and returned
CrawlFinish(save_to_local, save_fails) ==
    /\ crawlPc = "loop"
    /\ ~RetryLoopCond(retries, success)
    /\ crawl_i = Len(ids)
    /\ crawlPc' = "done"
    /\ crawlResponse' =
         [success |-> TRUE,
          status |-> "completed",
          platforms |-> DOMAIN results,
          total_news |-> Cardinality(CrawlData),
          failed_platforms |-> failed_ids,
          data |-> CrawlData,
          saved_to_local |-> save_to_local,
          note |-> IF ~save_to_local THEN "not persisted"
                   ELSE IF save_fails THEN "save failed" ELSE "persisted"]
    /\ UNCHANGED <<ids, crawl_i, retries, success, results, failed_ids, requests, crawlRest>>

CrawlNext ==
    \/ \E why \in StartFailures : CrawlRejected(why)
    \/ \E targets \in TargetLists : CrawlStart(targets)
    \/ \E a \in Attempts : CrawlAttempt(a)
    \/ CrawlNextPlatform
    \/ \E save_to_local, save_fails \in BOOLEAN : CrawlFinish(save_to_local, save_fails)

(***************************************************************************)
(* DataService: the four cached queries and their cache keys               *)
(***************************************************************************)
\* platform ids as callers may pass them to the service
PlatformNames == {"a", "b", "a,b"}

\* the platforms argument: None, or a list
PlatformArgs ==
    {[given |-> FALSE, list |-> <<>>]}
    \cup {[given |-> TRUE, list |-> l] :
            l \in {<<>>, <<"a">>, <<"a", "b">>, <<"a,b">>}}

Limits == {5, 50}

DateStrs == {"2025-10-10", "2025-10-11"}

Queries ==
    [op : {"get_latest_news"}, platforms : PlatformArgs, limit : Limits,
     include_url : BOOLEAN]
    \cup [op : {"get_news_by_date"}, date : DateStrs, platforms : PlatformArgs,
          limit : Limits, include_url : BOOLEAN]
    \cup [op : {"get_trending_topics"}, top_n : Limits,
          mode : {"daily", "current", "incremental"}]
    \cup [op : {"get_current_config"},
          section : {"all", "crawler", "push", "keywords", "weights", "other"}]

\* ','.join(list)
RECURSIVE Join(_)
Join(list) ==
    IF list = <<>> THEN ""
    ELSE IF Len(list) = 1 THEN list[1]
    ELSE list[1] \o "," \o Join(Tail(list))

\* str(bool)
StrBool(b) == IF b THEN "True" ELSE "False"

\* platforms or []
OrEmpty(platforms) == IF platforms.given THEN platforms.list ELSE <<>>

\* the f-strings that build cache_key
CacheKey(q) ==
    CASE q.op = "get_latest_news" ->
           "latest_news:" \o Join(OrEmpty(q.platforms)) \o ":" \o ToString(q.limit)
               \o ":" \o StrBool(q.include_url)
      [] q.op = "get_news_by_date" ->
           "news_by_date:" \o q.date \o ":" \o Join(OrEmpty(q.platforms)) \o ":"
               \o ToString(q.limit) \o ":" \o StrBool(q.include_url)
      [] q.op = "get_trending_topics" ->
           "trending_topics:" \o ToString(q.top_n) \o ":" \o q.mode
      [] q.op = "get_current_config" -> "config:" \o q.section

\* the ttl each query passes to cache.get
latest_news_ttl == 900
news_by_date_ttl == 1800
trending_topics_ttl == 1800
config_ttl == 3600

QueryTtl(q) ==
    CASE q.op = "get_latest_news" -> latest_news_ttl
      [] q.op = "get_news_by_date" -> news_by_date_ttl
      [] q.op = "get_trending_topics" -> trending_topics_ttl
      [] q.op = "get_current_config" -> config_ttl

\* `if cached:` on a list or dict result
Truthy(v) == v # NoneVal /\ v.size > 0

\* what the files behind a query hold: no data at all, or so many entries
TreeStates == {"DataNotFoundError", "empty", "some"}

\* the body after a cache miss, if it took any mode
Compute_AnyMode(q, tree) ==
    IF tree = "DataNotFoundError" \/ (tree = "empty" /\ q.op = "get_trending_topics")
    THEN [kind |-> "raise", exc |-> "DataNotFoundError"]
    ELSE [kind |-> "return", value |-> [for |-> q, size |-> 5]]

\* the body after a cache miss: the exception raised, or the result computed
Compute(q, tree) ==
    CASE q.op \in {"get_latest_news", "get_news_by_date"} ->
           IF tree = "DataNotFoundError"
           THEN [kind |-> "raise", exc |-> "DataNotFoundError"]
           ELSE [kind |-> "return",
                 value |-> [for |-> q, size |-> IF tree = "some" THEN 1 ELSE 0]]
      [] q.op = "get_trending_topics" ->
           IF tree = "DataNotFoundError" \/ tree = "empty"
           THEN [kind |-> "raise", exc |-> "DataNotFoundError"]
           ELSE IF q.mode \notin {"daily", "current"}
           THEN [kind |-> "raise", exc |-> "ValueError"]
           ELSE [kind |-> "return", value |-> [for |-> q, size |-> 5]]
      [] q.op = "get_current_config" ->
           [kind |-> "return",
            value |-> [for |-> q,
                       size |-> IF q.section = "all" THEN 4
                                ELSE IF q.section = "other" THEN 0 ELSE 1]]

DsInit ==
    /\ dsQueries = <<>>
    /\ dsCall = 0
    /\ dsKeys = EmptyMap
    /\ dsServed = [kind |-> "none"]

\* the scenario: two queries callers make of the service
DsPick(q1, q2) ==
    /\ dsQueries' = <<q1, q2>>
    /\ UNCHANGED <<cacheVars, dsCall, dsKeys, dsServed, dsRest>>

\* one cached query, from cache.get to return
DsQuery(i, tree) ==
    /\ dsQueries # <<>>
    /\ LET q == dsQueries[i]
           cache_key == CacheKey(q)
           got == CacheGet(cache, timestamps, now, cache_key, QueryTtl(q))
           computed == Compute(q, tree)
       IN  IF Truthy(got.ret)
           THEN /\ dsServed' = [kind |-> "return", value |-> got.ret, cached |-> TRUE]
                /\ cache' = got.cache
                /\ timestamps' = got.timestamps
           ELSE IF computed.kind = "raise"
           THEN /\ dsServed' = computed
                /\ cache' = got.cache
                /\ timestamps' = got.timestamps
           ELSE LET put == CacheSet(got.cache, got.timestamps, now, cache_key,
                                    computed.value)
                IN  /\ dsServed' = [kind |-> "return", value |-> computed.value,
                                    cached |-> FALSE]
                    /\ cache' = put.cache
                    /\ timestamps' = put.timestamps
    /\ dsCall' = i
    /\ dsKeys' = Put(dsKeys, i, CacheKey(dsQueries[i]))
    /\ UNCHANGED <<dsQueries, now, cacheRet, written, dsRest>>

DsNext ==
    \/ dsQueries = <<>> /\ \E q1, q2 \in Queries : DsPick(q1, q2)
    \/ \E i \in {1, 2}, tree \in TreeStates : DsQuery(i, tree)

(***************************************************************************)
(* get_cache: the lazy global instance, with no lock around the test and   *)
(* the assignment.  A thread can be switched out between any two of the    *)
(* function's steps.                                                       *)
(***************************************************************************)
Threads == 1..NumThreads

GcInit ==
    /\ global_cache = 0
    /\ gcPc = [t \in Threads |-> "idle"]
    /\ gcLocal = [t \in Threads |-> 0]
    /\ gcInstances = 0
    /\ gcReturned = {}

\* a thread calls get_cache (DataService.__init__ does)
GcCall(t) ==
    /\ gcPc[t] = "idle"
    /\ gcPc' = [gcPc EXCEPT ![t] = "check"]
    /\ UNCHANGED <<global_cache, gcLocal, gcInstances, gcReturned, gcRest>>

\* if _global_cache is None
GcCheck(t) ==
    /\ gcPc[t] = "check"
    /\ gcPc' = [gcPc EXCEPT ![t] = IF global_cache = 0 THEN "construct" ELSE "return"]
    /\ UNCHANGED <<global_cache, gcLocal, gcInstances, gcReturned, gcRest>>

\* CacheService()
GcConstruct(t) ==
    /\ gcPc[t] = "construct"
    /\ gcInstances' = gcInstances + 1
    /\ gcLocal' = [gcLocal EXCEPT ![t] = gcInstances + 1]
    /\ gcPc' = [gcPc EXCEPT ![t] = "store"]
    /\ UNCHANGED <<global_cache, gcReturned, gcRest>>

\* _global_cache = <the new instance>
GcStore(t) ==
    /\ gcPc[t] = "store"
    /\ global_cache' = gcLocal[t]
    /\ gcLocal' = [gcLocal EXCEPT ![t] = 0]
    /\ gcPc' = [gcPc EXCEPT ![t] = "return"]
    /\ UNCHANGED <<gcInstances, gcReturned, gcRest>>

\* return _global_cache
GcReturn(t) ==
    /\ gcPc[t] = "return"
    /\ gcReturned' = gcReturned \cup {global_cache}
    /\ gcPc' = [gcPc EXCEPT ![t] = "idle"]
    /\ UNCHANGED <<global_cache, gcLocal, gcInstances, gcRest>>

GcNext ==
    \E t \in Threads :
        \/ GcCall(t)
        \/ GcCheck(t)
        \/ GcConstruct(t)
        \/ GcStore(t)
        \/ GcReturn(t)

(***************************************************************************)
(* The process singletons: Settings, the logging flag, the facade registry *)
(***************************************************************************)
Facades == <<"data", "analytics", "search", "config", "system">>

FacadeNames == {Facades[i] : i \in DOMAIN Facades}

\* the project_root argument ("" for None) and the levels a config may name
ProjectRoots == {"", "/a", "/b"}

LogLevels == {"INFO", "DEBUG"}

NoSettings == [loaded |-> FALSE]

\* Settings.load: the root it resolves
ResolveRoot(project_root) == IF project_root # "" THEN project_root ELSE "<repo>"

SrvInit ==
    /\ settings = NoSettings
    /\ LOGGER_CONFIGURED = FALSE
    /\ sinkLevel = ""
    /\ tools_instances = EmptyMap
    /\ srvHist = [loads |-> 0, loadAfterOk |-> FALSE, sinkConfigs |-> 0,
                  firstLevel |-> "", built |-> [f \in FacadeNames |-> 0],
                  first |-> EmptyMap]
    /\ srvReturn = [kind |-> "none"]

\* setup_logging(level): the flag and the sink afterwards
SetupLogging(flag, sink, level) ==
    IF flag THEN [flag |-> flag, sink |-> sink, configured |-> FALSE]
    ELSE [flag |-> TRUE, sink |-> level, configured |-> TRUE]

\* _init_settings(project_root): Settings.load raises when the config file is
\* missing (load_ok false); the state afterwards, and whether it raised
InitSettings(project_root, load_ok, level) ==
    IF settings # NoSettings
    THEN [raised |-> FALSE, settings |-> settings, flag |-> LOGGER_CONFIGURED,
          sink |-> sinkLevel, loaded |-> FALSE, ran |-> FALSE, configured |-> FALSE]
    ELSE IF ~load_ok
    THEN [raised |-> TRUE, settings |-> settings, flag |-> LOGGER_CONFIGURED,
          sink |-> sinkLevel, loaded |-> FALSE, ran |-> TRUE, configured |-> FALSE]
    ELSE LET lg == SetupLogging(LOGGER_CONFIGURED, sinkLevel, level)
         IN  [raised |-> FALSE,
              settings |-> [loaded |-> TRUE, project_root |-> ResolveRoot(project_root),
                            log_level |-> level],
              flag |-> lg.flag, sink |-> lg.sink, loaded |-> TRUE, ran |-> TRUE,
              configured |-> lg.configured]

\* the five constructor calls of _get_tools, the fail_at-th raising (0: none):
\* the registry afterwards
RECURSIVE Construct(_, _, _)
Construct(reg, i, fail_at) ==
    IF i > Len(Facades) \/ i = fail_at THEN reg
    ELSE Construct(Put(reg, Facades[i], [facade |-> Facades[i]]), i + 1, fail_at)

\* _get_tools after _init_settings returned: the registry, and whether a
\* constructor raised
GetTools(reg, fail_at) ==
    IF DOMAIN reg = {}
    THEN [registry |-> Construct(reg, 1, fail_at), raised |-> fail_at # 0,
          built |-> {Facades[i] : i \in {j \in DOMAIN Facades :
                                           fail_at = 0 \/ j < fail_at}}]
    ELSE [registry |-> reg, raised |-> FALSE, built |-> {}]

\* the history after one _init_settings and one _get_tools
NextHist(st, gt) ==
    [loads |-> srvHist.loads + (IF st.loaded THEN 1 ELSE 0),
     loadAfterOk |-> srvHist.loadAfterOk \/ (st.ran /\ srvHist.loads > 0),
     sinkConfigs |-> srvHist.sinkConfigs + (IF st.configured THEN 1 ELSE 0),
     firstLevel |-> IF srvHist.firstLevel = "" THEN st.sink ELSE srvHist.firstLevel,
     built |-> [f \in FacadeNames |->
                  srvHist.built[f] + (IF f \in gt.built THEN 1 ELSE 0)],
     first |-> IF srvHist.first = EmptyMap /\ ~st.raised /\ ~gt.raised
               THEN gt.registry ELSE srvHist.first]

\* a registered tool function: tools = _get_tools()
ToolInvocation(load_ok, level, fail_at) ==
    LET st == InitSettings("", load_ok, level)
        gt == IF st.raised THEN [registry |-> tools_instances, raised |-> FALSE,
                                 built |-> {}]
              ELSE GetTools(tools_instances, fail_at)
    IN  /\ settings' = st.settings
        /\ LOGGER_CONFIGURED' = st.flag
        /\ sinkLevel' = st.sink
        /\ tools_instances' = gt.registry
        /\ srvHist' = NextHist(st, gt)
        /\ srvReturn' = IF st.raised THEN [kind |-> "raised", exc |-> "FileNotFoundError"]
                        ELSE IF gt.raised THEN [kind |-> "raised", exc |-> "Exception"]
                        ELSE [kind |-> "registry", value |-> gt.registry]
        /\ UNCHANGED srvRest

\* run_server(project_root, ...): _init_settings(project_root), then
\* _get_tools(str(settings.project_root))
RunServer(project_root, load_ok, level, fail_at) ==
    LET st == InitSettings(project_root, load_ok, level)
        gt == IF st.raised THEN [registry |-> tools_instances, raised |-> FALSE,
                                 built |-> {}]
              ELSE GetTools(tools_instances, fail_at)
    IN  /\ settings' = st.settings
        /\ LOGGER_CONFIGURED' = st.flag
        /\ sinkLevel' = st.sink
        /\ tools_instances' = gt.registry
        /\ srvHist' = NextHist(st, gt)
        /\ srvReturn' = IF st.raised THEN [kind |-> "raised", exc |-> "FileNotFoundError"]
                        ELSE IF gt.raised THEN [kind |-> "raised", exc |-> "Exception"]
                        ELSE [kind |-> "registry", value |-> gt.registry]
        /\ UNCHANGED srvRest

\* setup_logging(level) called again by any code of the process
SetupLoggingCall(level) ==
    LET lg == SetupLogging(LOGGER_CONFIGURED, sinkLevel, level)
    IN  /\ LOGGER_CONFIGURED' = lg.flag
        /\ sinkLevel' = lg.sink
        /\ srvHist' = [srvHist EXCEPT
                         !.sinkConfigs = @ + (IF lg.configured THEN 1 ELSE 0),
                         !.firstLevel = IF @ = "" THEN lg.sink ELSE @]
        /\ srvReturn' = [kind |-> "none"]
        /\ UNCHANGED <<settings, tools_instances, srvRest>>

SrvNext ==
    \/ \E load_ok \in BOOLEAN, level \in LogLevels, fail_at \in 0..Len(Facades) :
          ToolInvocation(load_ok, level, fail_at)
    \/ \E project_root \in ProjectRoots, load_ok \in BOOLEAN, level \in LogLevels,
          fail_at \in 0..Len(Facades) :
          RunServer(project_root, load_ok, level, fail_at)
    \/ \E level \in LogLevels : SetupLoggingCall(level)

(***************************************************************************)
(* The calendar of datetime: proleptic Gregorian dates, ordinals, weekdays *)
(***************************************************************************)
IsLeap(y) == y % 4 = 0 /\ (y % 100 # 0 \/ y % 400 = 0)

DaysInMonth(y, m) ==
    IF m = 2 THEN (IF IsLeap(y) THEN 29 ELSE 28)
    ELSE IF m \in {4, 6, 9, 11} THEN 30 ELSE 31

DaysBeforeYear(y) ==
    LET p == y - 1 IN p * 365 + (p \div 4) - (p \div 100) + (p \div 400)

RECURSIVE DaysBeforeMonth(_, _)
DaysBeforeMonth(y, m) ==
    IF m = 1 THEN 0 ELSE DaysBeforeMonth(y, m - 1) + DaysInMonth(y, m - 1)

\* date.toordinal()
ToOrdinal(y, m, d) == DaysBeforeYear(y) + DaysBeforeMonth(y, m) + d

ValidDate(y, m, d) ==
    /\ y \in 1..9999
    /\ m \in 1..12
    /\ d \in 1..DaysInMonth(y, m)

\* datetime(year, month, day): midnight of that day, or ValueError
Datetime(y, m, d) ==
    IF ValidDate(y, m, d)
    THEN [kind |-> "datetime", ord |-> ToOrdinal(y, m, d), tod |-> 0]
    ELSE [kind |-> "raise", exc |-> "ValueError"]

\* datetime.weekday(): 0 is Monday
Weekday(dt) == (dt.ord + 6) % 7

\* dt - timedelta(days=n): the time of day is kept
MinusDays(dt, n) == [kind |-> "datetime", ord |-> dt.ord - n, tod |-> dt.tod]

\* the times of day the clock is read at, in seconds: midnight and noon
TimesOfDay == <<0, 43200>>

\* the days the clock is set to: before a leap day, before a new year, mid-year
ClockStarts ==
    {[y |-> 2024, m |-> 2, d |-> 28], [y |-> 2024, m |-> 12, d |-> 31],
     [y |-> 2025, m |-> 10, d |-> 11]}

ClockUnset == [set |-> FALSE]

\* datetime.now()
Now == [kind |-> "datetime", ord |-> ToOrdinal(wall.y, wall.m, wall.d),
        tod |-> TimesOfDay[wall.t]]

InvalidParameterError(why) ==
    [kind |-> "raise", exc |-> "InvalidParameterError", why |-> why]

(***************************************************************************)
(* DateParser (utils/date_parser.py)                                       *)
(***************************************************************************)
DATE_MAPPING ==
    [w \in {"today", "yesterday", "ereyesterday", "day before yesterday"} |->
        IF w = "today" THEN 0 ELSE IF w = "yesterday" THEN 1 ELSE 2]

\* DateParser._get_date_by_weekday without the wrap of a target later in the week
GetDateByWeekday_NoWrap(today, target_weekday, is_last_week) ==
    MinusDays(today, Weekday(today) - target_weekday
                     + (IF is_last_week THEN 7 ELSE 0))

\* DateParser._get_date_by_weekday
GetDateByWeekday(today, target_weekday, is_last_week) ==
    LET current_weekday == Weekday(today)
        diff == current_weekday - target_weekday
        days_diff == IF is_last_week THEN diff + 7
                     ELSE IF diff < 0 THEN diff + 7 ELSE diff
    IN  MinusDays(today, days_diff)

\* the year a slash date without a year is given
SlashYear(month, year_read, current_month) ==
    IF month > current_month THEN year_read - 1 ELSE year_read

\* datetime(...) inside try/except ValueError
DatetimeOrInvalid(y, m, d) ==
    LET dt == Datetime(y, m, d)
    IN  IF dt.kind = "raise" THEN InvalidParameterError("Invalid date") ELSE dt

\* DateParser.parse_date_query on a query of each form it matches; now is the
\* clock as read by the relative forms, year_read and current_month the two
\* clock reads of a slash date that names no year
ParseDateQuery(q, now_dt, year_read, current_month) ==
    CASE q.form = "empty" -> InvalidParameterError("Date query string cannot be empty")
      [] q.form = "word" -> MinusDays(now_dt, DATE_MAPPING[q.word])
      [] q.form = "days_ago" ->
           IF q.days > 365 THEN InvalidParameterError("Number of days too large")
           ELSE MinusDays(now_dt, q.days)
      [] q.form = "weekday" -> GetDateByWeekday(now_dt, q.weekday, q.last)
      [] q.form = "iso" -> DatetimeOrInvalid(q.y, q.m, q.d)
      [] q.form = "slash" -> DatetimeOrInvalid(q.y, q.m, q.d)
      [] q.form = "slash_md" ->
           DatetimeOrInvalid(SlashYear(q.m, year_read, current_month), q.m, q.d)
      [] OTHER -> InvalidParameterError("Unrecognized date format")

\* DateParser.validate_date_not_future: does it raise
IsFuture(dt, now_dt) == dt.ord > now_dt.ord

\* DateParser.validate_date_not_too_old: does it raise
IsTooOld_OffByOne(dt, now_dt, max_days) == now_dt.ord - dt.ord > max_days + 1

IsTooOld(dt, now_dt, max_days) ==
    LET days_ago == now_dt.ord - dt.ord IN days_ago > max_days

(***************************************************************************)
(* Inputs of the date utilities                                            *)
(***************************************************************************)
QueryYears == 2023..2026

QueryMonths == {0, 1, 2, 3, 10, 12, 13}

QueryDays == {0, 1, 10, 11, 28, 29, 31, 32}

DaysAgoArgs == {0, 1, 364, 365, 366}

DateQueries ==
    {[form |-> "empty"], [form |-> "unrecognized"]}
    \cup [form : {"word"}, word : DOMAIN DATE_MAPPING]
    \cup [form : {"days_ago"}, days : DaysAgoArgs]
    \cup [form : {"weekday"}, last : BOOLEAN, weekday : 0..6]
    \cup [form : {"iso", "slash"}, y : QueryYears, m : QueryMonths, d : QueryDays]
    \cup [form : {"slash_md"}, m : QueryMonths, d : QueryDays]

MaxDaysAgoArgs == {365, 7}

(***************************************************************************)
(* validate_date and validate_date_range (utils/validators.py)             *)
(***************************************************************************)
\* a date string: no string, one strptime rejects, or YYYY-MM-DD digits
NoString == [str |-> "none"]

Malformed == [str |-> "malformed"]

RangeStrs ==
    {NoString, Malformed}
    \cup [str : {"ymd"}, y : {2024, 2025}, m : {1, 2, 10, 12},
          d : {1, 11, 12, 28, 29, 30, 31}]

RangeArgs ==
    {[arg |-> "None"], [arg |-> "not a dict"]}
    \cup [arg : {"dict"}, start : RangeStrs, end : RangeStrs]

\* what the hint about the data on disk comes to
AvailableRanges ==
    {"2025-10-01 to 2025-10-11", "No data available",
     "Unknown (please check output directory)"}

\* validate_date: strptime(date_str, "%Y-%m-%d")
ValidateDate(date_str) ==
    IF date_str.str # "ymd" THEN InvalidParameterError("Invalid date format")
    ELSE LET dt == Datetime(date_str.y, date_str.m, date_str.d)
         IN  IF dt.kind = "raise" THEN InvalidParameterError("Invalid date format")
             ELSE dt

\* the comparison of the two bounds
StartAfterEnd_Strict(start_date, end_date) == start_date.ord >= end_date.ord

StartAfterEnd(start_date, end_date) == start_date.ord > end_date.ord

\* validate_date_range
ValidateDateRange(date_range, today, available_range) ==
    IF date_range.arg = "None" THEN [kind |-> "return", value |-> NoneVal]
    ELSE IF date_range.arg # "dict"
    THEN InvalidParameterError("date_range must be a dictionary.")
    ELSE IF date_range.start = NoString \/ date_range.end = NoString
    THEN InvalidParameterError("date_range must contain 'start' and 'end' fields")
    ELSE LET start_date == ValidateDate(date_range.start)
             end_date == ValidateDate(date_range.end)
         IN  IF start_date.kind = "raise" THEN start_date
             ELSE IF end_date.kind = "raise" THEN end_date
             ELSE IF StartAfterEnd(start_date, end_date)
             THEN InvalidParameterError("Start date cannot be later than end date")
             ELSE IF start_date.ord > today.ord \/ end_date.ord > today.ord
             THEN [kind |-> "raise", exc |-> "InvalidParameterError",
                   why |-> "Querying future dates is not allowed",
                   suggestion |-> [about |-> "Currently available data range",
                                   range |-> available_range]]
             ELSE [kind |-> "return", value |-> <<start_date, end_date>>]

(***************************************************************************)
(* The clock, and the calls of the date utilities                          *)
(***************************************************************************)
DateInit ==
    /\ wall = ClockUnset
    /\ wallDays = 0
    /\ dqPc = "idle"
    /\ dqCall = [q |-> [form |-> "empty"], allow_future |-> FALSE, max_days_ago |-> 365]
    /\ dqYear = 0
    /\ dqParsed = [kind |-> "none"]
    /\ dqRet = [kind |-> "none"]
    /\ rangeCall = [arg |-> "None"]
    /\ rangeRet = [kind |-> "none"]

\* the process starts on some day, at midnight
ClockSet(start) ==
    /\ wall = ClockUnset
    /\ wall' = [set |-> TRUE, y |-> start.y, m |-> start.m, d |-> start.d, t |-> 1]
    /\ UNCHANGED <<wallDays, dqVars, rangeVars, dateRest>>

\* time passes: later the same day, or over midnight into the next day
ClockAdvance ==
    /\ wall # ClockUnset
    /\ IF wall.t < Len(TimesOfDay)
       THEN /\ wall' = [wall EXCEPT !.t = @ + 1]
            /\ UNCHANGED wallDays
       ELSE /\ wallDays < MaxClockDays
            /\ wallDays' = wallDays + 1
            /\ wall' = IF wall.d < DaysInMonth(wall.y, wall.m)
                       THEN [wall EXCEPT !.d = @ + 1, !.t = 1]
                       ELSE IF wall.m < 12
                       THEN [wall EXCEPT !.m = @ + 1, !.d = 1, !.t = 1]
                       ELSE [wall EXCEPT !.y = @ + 1, !.m = 1, !.d = 1, !.t = 1]
    /\ UNCHANGED <<dqVars, rangeVars, dateRest>>

\* validate_date_range(date_range), called once at some time of some day: one
\* read of the clock
ValidateDateRangeCall(date_range, available_range) ==
    /\ wall # ClockUnset
    /\ rangeRet.kind = "none"
    /\ rangeCall' = date_range
    /\ rangeRet' = [kind |-> "done",
                    ret |-> ValidateDateRange(date_range, Now, available_range),
                    today |-> Now.ord]
    /\ UNCHANGED <<clockVars, dqVars, dateRest>>

\* what parse_date_query's result does to validate_date_query
AfterParse(parsed) ==
    /\ dqParsed' = parsed
    /\ IF parsed.kind = "raise"
       THEN /\ dqPc' = "idle"
            /\ dqRet' = [kind |-> "done", ret |-> parsed, today |-> Now.ord]
       ELSE /\ dqPc' = "not_future"
            /\ dqRet' = [kind |-> "none"]

\* validate_date_query(date_query, allow_future, max_days_ago), called once at
\* some time of some day, up to the first read of the clock in parse_date_query
DateQueryCall(q, allow_future, max_days_ago) ==
    /\ wall # ClockUnset
    /\ dqPc = "idle"
    /\ dqRet.kind = "none"
    /\ dqParsed.kind = "none"
    /\ dqCall' = [q |-> q, allow_future |-> allow_future, max_days_ago |-> max_days_ago]
    /\ IF q.form = "slash_md"
       THEN /\ dqYear' = wall.y
            /\ dqPc' = "slash_month"
            /\ dqParsed' = [kind |-> "none"]
            /\ dqRet' = [kind |-> "none"]
       ELSE /\ AfterParse(ParseDateQuery(q, Now, 0, 0))
            /\ UNCHANGED dqYear
    /\ UNCHANGED <<clockVars, rangeVars, dateRest>>

\* current_month = datetime.now().month, and the rest of parse_date_query
DateQuerySlashMonth ==
    /\ dqPc = "slash_month"
    /\ AfterParse(ParseDateQuery(dqCall.q, Now, dqYear, wall.m))
    /\ UNCHANGED <<dqCall, dqYear, clockVars, rangeVars, dateRest>>

\* if not allow_future: DateParser.validate_date_not_future(parsed_date)
DateQueryNotFuture ==
    /\ dqPc = "not_future"
    /\ IF ~dqCall.allow_future /\ IsFuture(dqParsed, Now)
       THEN /\ dqPc' = "idle"
            /\ dqRet' = [kind |-> "done", ret |-> InvalidParameterError("Cannot query future dates"),
                         today |-> Now.ord]
       ELSE /\ dqPc' = "not_too_old"
            /\ UNCHANGED dqRet
    /\ UNCHANGED <<dqCall, dqYear, dqParsed, clockVars, rangeVars, dateRest>>

\* DateParser.validate_date_not_too_old(parsed_date, max_days=max_days_ago); return
DateQueryNotTooOld ==
    /\ dqPc = "not_too_old"
    /\ dqPc' = "idle"
    /\ dqRet' = [kind |-> "done", ret |-> IF IsTooOld(dqParsed, Now, dqCall.max_days_ago)
                  THEN InvalidParameterError("Date is too old")
                  ELSE [kind |-> "return", value |-> dqParsed],
                 today |-> Now.ord]
    /\ UNCHANGED <<dqCall, dqYear, dqParsed, clockVars, rangeVars, dateRest>>

DateQueryNext ==
    \/ \E start \in ClockStarts : ClockSet(start)
    \/ ClockAdvance
    \/ /\ dqRet.kind = "none" /\ dqPc = "idle"
       /\ \E q \in DateQueries, allow_future \in BOOLEAN,
             max_days_ago \in MaxDaysAgoArgs :
             DateQueryCall(q, allow_future, max_days_ago)
    \/ DateQuerySlashMonth
    \/ DateQueryNotFuture
    \/ DateQueryNotTooOld

DateRangeNext ==
    \/ \E start \in ClockStarts : ClockSet(start)
    \/ ClockAdvance
    \/ /\ rangeRet.kind = "none"
       /\ \E date_range \in RangeArgs, available_range \in AvailableRanges :
             ValidateDateRangeCall(date_range, available_range)

(***************************************************************************)
(* calculate_news_weight (tools/analytics.py).  The floats are kept as     *)
(* exact fractions num/den.                                                *)
(***************************************************************************)
Frac(num, den) == [num |-> num, den |-> den]

FracAdd(a, b) == Frac(a.num * b.den + b.num * a.den, a.den * b.den)

FracMul(a, b) == Frac(a.num * b.num, a.den * b.den)

Min(a, b) == IF a < b THEN a ELSE b

RANK_WEIGHT == Frac(6, 10)

FREQUENCY_WEIGHT == Frac(3, 10)

HOTNESS_WEIGHT == Frac(1, 10)

\* score = 11 - min(rank, 10)
RankScore_Uncapped(rank) == 11 - rank

RankScore(rank) == 11 - Min(rank, 10)

\* the loop that fills rank_scores
RECURSIVE RankScores(_)
RankScores(ranks) ==
    IF ranks = <<>> THEN <<>>
    ELSE <<RankScore(Head(ranks))>> \o RankScores(Tail(ranks))

\* sum(...)
RECURSIVE Sum(_)
Sum(q) == IF q = <<>> THEN 0 ELSE Head(q) + Sum(Tail(q))

\* sum(1 for rank in ranks if rank <= rank_threshold)
HighRankCount(ranks, rank_threshold) ==
    Cardinality({i \in DOMAIN ranks : ranks[i] <= rank_threshold})

CalculateNewsWeight(news_data, rank_threshold) ==
    LET ranks == IF "ranks" \in DOMAIN news_data THEN news_data.ranks ELSE <<>>
    IN  IF ranks = <<>> THEN Frac(0, 1)
        ELSE LET count == IF "count" \in DOMAIN news_data THEN news_data.count
                          ELSE Len(ranks)
                 rank_weight == Frac(Sum(RankScores(ranks)), Len(ranks))
                 frequency_weight == Frac(Min(count, 10) * 10, 1)
                 hotness_ratio == Frac(HighRankCount(ranks, rank_threshold), Len(ranks))
                 hotness_weight == FracMul(hotness_ratio, Frac(100, 1))
             IN  FracAdd(FracAdd(FracMul(rank_weight, RANK_WEIGHT),
                                 FracMul(frequency_weight, FREQUENCY_WEIGHT)),
                         FracMul(hotness_weight, HOTNESS_WEIGHT))

\* the records it is called on
RankValues == {1, 2, 3, 5, 6, 10, 12}

CountValues == {0, 1, 3, 10, 12}

RankLists == SeqsUpTo(RankValues, MaxRanks)

NewsRecords ==
    [ranks : RankLists, count : CountValues]
    \cup [ranks : RankLists]
    \cup [count : CountValues]

RankThresholds == {5, 3}

WeightInit ==
    /\ weightCall = [news_data |-> [count |-> 0], rank_threshold |-> 5]
    /\ weightRet = [kind |-> "none"]

\* calculate_news_weight(news_data, rank_threshold), called once
CalculateNewsWeightCall(news_data, rank_threshold) ==
    /\ weightRet.kind = "none"
    /\ weightCall' = [news_data |-> news_data, rank_threshold |-> rank_threshold]
    /\ weightRet' = [kind |-> "done",
                     value |-> CalculateNewsWeight(news_data, rank_threshold)]
    /\ UNCHANGED weightRest

WeightNext ==
    /\ weightRet.kind = "none"
    /\ \E news_data \in NewsRecords, rank_threshold \in RankThresholds :
          CalculateNewsWeightCall(news_data, rank_threshold)

(***************************************************************************)
(* AnalyticsTools.analyze_topic_lifecycle (tools/analytics.py): the daily  *)
(* mention counts of a topic over a window of days, and its classification *)
(***************************************************************************)
\* what read_all_titles_for_date gives for one day: DataNotFoundError, or the
\* number of titles containing the topic
NoDayData == [data |-> FALSE]

DayStates == {NoDayData} \cup [data : {TRUE}, count : 0..MaxMentions]

\* the lengths of the window: the default of 7 days, and a date_range of 2 days
WindowDays == {2, 7}

RECURSIVE SeqsOfLen(_, _)
SeqsOfLen(S, n) ==
    IF n = 0 THEN {<<>>}
    ELSE {Append(q, x) : q \in SeqsOfLen(S, n - 1), x \in S}

LifecycleWindows == UNION {SeqsOfLen(DayStates, n) : n \in WindowDays}

\* the while loop over the days: one count per day, 0 when the day has no data
LifecycleCounts(days) ==
    [i \in DOMAIN days |-> IF days[i].data THEN days[i].count ELSE 0]

\* max(counts)
RECURSIVE MaxOf(_)
MaxOf(q) ==
    IF Len(q) = 1 THEN q[1]
    ELSE LET rest == MaxOf(Tail(q)) IN IF Head(q) >= rest THEN Head(q) ELSE rest

\* counts[:3] and counts[-3:]
FirstThree(q) == SubSeq(q, 1, Min(3, Len(q)))

LastThree(q) == SubSeq(q, IF Len(q) > 3 THEN Len(q) - 2 ELSE 1, Len(q))

NonZero(q) == SelectSeq(q, LAMBDA c : c > 0)

\* the lifecycle stage; sum(recent) < sum(early) * 0.5 is 2 * recent < early
LifecycleStage(counts) ==
    LET recent_counts == LastThree(counts)
        early_counts == FirstThree(counts)
        max_count == MaxOf(counts)
    IN  IF Sum(recent_counts) > Sum(early_counts) THEN "Rising Phase"
        ELSE IF 2 * Sum(recent_counts) < Sum(early_counts) THEN "Recession Phase"
        ELSE IF \E i \in DOMAIN recent_counts : recent_counts[i] = max_count
        THEN "Explosion Phase"
        ELSE "Stable Phase"

\* the topic type; avg_count is the mean of the non-zero counts, so
\* max_count > avg_count * 2 is max_count * len(non_zero) > 2 * sum(non_zero),
\* and active_days >= total_days * 0.6 is 10 * active_days >= 6 * total_days
TopicType(counts, total_days) ==
    LET non_zero_counts == NonZero(counts)
        max_count == MaxOf(counts)
        active_days == Len(NonZero(counts))
    IN  IF active_days <= 2
           /\ max_count * Len(non_zero_counts) > 2 * Sum(non_zero_counts)
        THEN "Flash in the pan"
        ELSE IF 10 * active_days >= 6 * total_days THEN "Sustained Hotspot"
        ELSE "Periodic Hotspot"

\* the method, from the loop to the returned dict or the failure envelope
AnalyzeTopicLifecycle(days) ==
    LET counts == LifecycleCounts(days)
        total_days == Len(days)
    IN  IF \A i \in DOMAIN counts : counts[i] = 0
        THEN [success |-> FALSE,
              error |-> [code |-> "DataNotFoundError", message |-> "message",
                         suggestion |-> "suggestion"]]
        ELSE [success |-> TRUE,
              total_days |-> total_days,
              counts |-> counts,
              analysis |-> [peak_count |-> MaxOf(counts),
                            active_days |-> Len(NonZero(counts)),
                            avg_daily_mentions |-> Frac(Sum(NonZero(counts)),
                                                       Len(NonZero(counts))),
                            lifecycle_stage |-> LifecycleStage(counts),
                            topic_type |-> TopicType(counts, total_days)]]

LifecycleInit ==
    /\ lifeCall = <<>>
    /\ lifeRet = [kind |-> "none"]

\* analyze_topic_lifecycle(topic, date_range), called once on some data
AnalyzeTopicLifecycleCall(days) ==
    /\ lifeRet.kind = "none"
    /\ lifeCall' = days
    /\ lifeRet' = [kind |-> "done", result |-> AnalyzeTopicLifecycle(days)]
    /\ UNCHANGED lifeRest

LifecycleNext ==
    /\ lifeRet.kind = "none"
    /\ \E days \in LifecycleWindows : AnalyzeTopicLifecycleCall(days)

(***************************************************************************)
(* validate_limit and validate_top_n (utils/validators.py)                 *)
(***************************************************************************)
\* a limit argument: None, an int, or a value of another type
IntArg(n) == [int |-> n]

NotAnInt == [other |-> "float"]

IsInt(limit) == DOMAIN limit = {"int"}

LimitInts == (-2..5) \cup {19, 20, 21, 99, 100, 101, 500, 999, 1000, 1001, 5000}

LimitArgs == {NoneVal, NotAnInt} \cup {IntArg(n) : n \in LimitInts}

LimitDefaults == {3, 10, 20}

LimitMaxima == {100, 1000}

\* if limit <= 0
NonPositive_Strict(n) == n < 0

NonPositive(n) == n <= 0

\* validate_limit(limit, default, max_limit)
ValidateLimit(limit, default, max_limit) ==
    IF limit = NoneVal THEN [kind |-> "return", value |-> default]
    ELSE IF ~IsInt(limit)
    THEN InvalidParameterError("The 'limit' parameter must be an integer.")
    ELSE IF NonPositive(limit.int)
    THEN InvalidParameterError("Limit must be greater than 0.")
    ELSE IF limit.int > max_limit
    THEN InvalidParameterError("Limit cannot exceed max_limit")
    ELSE [kind |-> "return", value |-> limit.int]

\* validate_top_n(top_n, default)
ValidateTopN(top_n, default) == ValidateLimit(top_n, default, 100)

LimitInit ==
    /\ limitCall = [limit |-> NoneVal, default |-> 20, max_limit |-> 1000]
    /\ limitRet = [kind |-> "none"]

\* validate_limit(limit, default, max_limit), called once
ValidateLimitCall(limit, default, max_limit) ==
    /\ limitRet.kind = "none"
    /\ limitCall' = [limit |-> limit, default |-> default, max_limit |-> max_limit]
    /\ limitRet' = [kind |-> "done", ret |-> ValidateLimit(limit, default, max_limit)]
    /\ UNCHANGED limitRest

LimitNext ==
    /\ limitRet.kind = "none"
    /\ \E limit \in LimitArgs, default \in LimitDefaults, max_limit \in LimitMaxima :
          ValidateLimitCall(limit, default, max_limit)

(***************************************************************************)
(* AnalyticsTools.analyze_keyword_cooccurrence and _extract_keywords       *)
(* (tools/analytics.py).  A title is the sequence of words the regular     *)
(* expressions of _extract_keywords split it into.                         *)
(***************************************************************************)
\* the words of the titles: two keywords, a stopword, a one-letter word
Words == {"ai", "chip", "the", "x"}

stopwords == {"the"}

WordLen(w) == IF w = "x" THEN 1 ELSE IF w = "chip" THEN 4 ELSE IF w = "the" THEN 3 ELSE 2

\* the order of Python's string comparison on the words
WordRank(w) == IF w = "ai" THEN 1 ELSE IF w = "chip" THEN 2 ELSE IF w = "the" THEN 3 ELSE 4

CoTitles == SeqsUpTo(Words, MaxWords)

\* the titles of today in the order the nested loops visit them
CoTitleLists == SeqsUpTo(CoTitles, MaxTitles)

\* _extract_keywords(title): the words kept, in order, repeats included
ExtractKeywords(title) ==
    SelectSeq(title, LAMBDA word : WordLen(word) >= 2 /\ word \notin stopwords)

\* tuple(sorted([kw1, kw2]))
SortedPair(kw1, kw2) == IF WordRank(kw1) <= WordRank(kw2) THEN <<kw1, kw2>> ELSE <<kw2, kw1>>

\* the pairs of one title: for i, kw1 in enumerate(keywords): for kw2 in keywords[i+1:]
RECURSIVE TitlePairs(_)
TitlePairs(keywords) ==
    IF Len(keywords) < 2 THEN <<>>
    ELSE [j \in 1..(Len(keywords) - 1) |-> SortedPair(keywords[1], keywords[j + 1])]
         \o TitlePairs(Tail(keywords))

\* cooccurrence[pair] += 1, the Counter kept in insertion order
Increment(counter, pair) ==
    IF \E i \in DOMAIN counter : counter[i].pair = pair
    THEN [i \in DOMAIN counter |->
            IF counter[i].pair = pair
            THEN [pair |-> pair, count |-> counter[i].count + 1]
            ELSE counter[i]]
    ELSE Append(counter, [pair |-> pair, count |-> 1])

RECURSIVE IncrementAll(_, _)
IncrementAll(counter, pairs) ==
    IF pairs = <<>> THEN counter
    ELSE IncrementAll(Increment(counter, Head(pairs)), Tail(pairs))

\* the loop over the titles
RECURSIVE Cooccurrence(_, _)
Cooccurrence(counter, titles) ==
    IF titles = <<>> THEN counter
    ELSE Cooccurrence(IncrementAll(counter, TitlePairs(ExtractKeywords(Head(titles)))),
                      Tail(titles))

\* keyword_titles[kw]: the title is appended once for each occurrence of kw
RECURSIVE KeywordTitles(_, _)
KeywordTitles(titles, kw) ==
    IF titles = <<>> THEN <<>>
    ELSE LET occurrences == SelectSeq(ExtractKeywords(Head(titles)), LAMBDA w : w = kw)
         IN  [i \in DOMAIN occurrences |-> Head(titles)] \o KeywordTitles(Tail(titles), kw)

\* sorted(filtered_pairs, key=count, reverse=True): stable, largest first
RECURSIVE InsertByCount(_, _)
InsertByCount(sorted, x) ==
    IF sorted = <<>> THEN <<x>>
    ELSE IF Head(sorted).count >= x.count
    THEN <<Head(sorted)>> \o InsertByCount(Tail(sorted), x)
    ELSE <<x>> \o sorted

RECURSIVE SortByCount(_, _)
SortByCount(sorted, rest) ==
    IF rest = <<>> THEN sorted
    ELSE SortByCount(InsertByCount(sorted, Head(rest)), Tail(rest))

FirstN(q, n) == SubSeq(q, 1, Min(n, Len(q)))

\* the method on today's titles
AnalyzeKeywordCooccurrence(min_frequency, top_n, titles) ==
    LET mf == ValidateLimit(min_frequency, 3, 100)
        tn == ValidateTopN(top_n, 20)
    IN  IF mf.kind = "raise"
        THEN [success |-> FALSE, error |-> [code |-> mf.exc, message |-> mf.why]]
        ELSE IF tn.kind = "raise"
        THEN [success |-> FALSE, error |-> [code |-> tn.exc, message |-> tn.why]]
        ELSE LET cooccurrence == Cooccurrence(<<>>, titles)
                 filtered_pairs ==
                     SelectSeq(cooccurrence, LAMBDA pc : pc.count >= mf.value)
                 top_pairs == FirstN(SortByCount(<<>>, filtered_pairs), tn.value)
                 result_pairs ==
                     [i \in DOMAIN top_pairs |->
                        LET kw1 == top_pairs[i].pair[1]
                            kw2 == top_pairs[i].pair[2]
                            titles_with_both ==
                                SelectSeq(KeywordTitles(titles, kw1),
                                          LAMBDA t : \E k \in DOMAIN ExtractKeywords(t) :
                                                        ExtractKeywords(t)[k] = kw2)
                        IN  [keyword1 |-> kw1, keyword2 |-> kw2,
                             cooccurrence_count |-> top_pairs[i].count,
                             sample_titles |-> FirstN(titles_with_both, 3)]]
             IN  [success |-> TRUE,
                  cooccurrence_pairs |-> result_pairs,
                  total_pairs |-> Len(result_pairs),
                  min_frequency |-> mf.value]

MinFrequencyArgs == {NoneVal, IntArg(0), IntArg(2), IntArg(3)}

TopNArgs == {NoneVal, IntArg(1)}

CoInit ==
    /\ coCall = [min_frequency |-> NoneVal, top_n |-> NoneVal, titles |-> <<>>]
    /\ coRet = [kind |-> "none"]

\* analyze_keyword_cooccurrence(min_frequency, top_n), called once on some data
AnalyzeKeywordCooccurrenceCall(min_frequency, top_n, titles) ==
    /\ coRet.kind = "none"
    /\ coCall' = [min_frequency |-> min_frequency, top_n |-> top_n, titles |-> titles]
    /\ coRet' = [kind |-> "done",
                 result |-> AnalyzeKeywordCooccurrence(min_frequency, top_n, titles)]
    /\ UNCHANGED coRest

CoNext ==
    /\ coRet.kind = "none"
    /\ \E min_frequency \in MinFrequencyArgs, top_n \in TopNArgs, titles \in CoTitleLists :
          AnalyzeKeywordCooccurrenceCall(min_frequency, top_n, titles)

(***************************************************************************)
(* AnalyticsTools.predict_trending_topics (tools/analytics.py).  A day is  *)
(* given by the Counter of keywords over its titles, or has no data.       *)
(***************************************************************************)
\* the keywords, in the order the Counters first meet them
Keywords == <<"ai", "chip">>

KeywordSet == {Keywords[i] : i \in DOMAIN Keywords}

\* the keyword counts of one day (0: the keyword is not in the Counter)
TrendDays == {NoDayData} \cup [data : {TRUE}, counts : [KeywordSet -> 0..MaxMentions]]

\* confidence values and thresholds, in tenths
ConfidenceThresholds == {0, 7, 10, 15}

\* round(x, 2) of the fraction num/den >= 0, in hundredths
Round2(num, den) == (200 * num + den) \div (2 * den)

\* keyword_trends[keyword] after the four loops: one count for each day, oldest
\* first, on which the day has data and the keyword occurs
TrendData(days, keyword) ==
    LET present == SelectSeq(days, LAMBDA day : day.data /\ day.counts[keyword] > 0)
    IN  [i \in DOMAIN present |-> present[i].counts[keyword]]

\* all(trend_data[i] <= trend_data[i+1] ...)
IsConsistent(trend_data) ==
    \A i \in 1..(Len(trend_data) - 1) : trend_data[i] <= trend_data[i + 1]

\* the body of the loop over keyword_trends: the predicted topic, or nothing
Predict(keyword, trend_data, confidence_threshold) ==
    IF Len(trend_data) < 2 THEN <<>>
    ELSE LET recent_value == trend_data[Len(trend_data)]
             previous_value == trend_data[Len(trend_data) - 1]
             skipped == previous_value = 0 /\ recent_value < 3
             \* growth_rate as a fraction
             growth_num == IF previous_value = 0 THEN 1 ELSE recent_value - previous_value
             growth_den == IF previous_value = 0 THEN 1 ELSE previous_value
             confidence == IF Len(trend_data) >= 3
                           THEN (IF IsConsistent(trend_data) THEN 9 ELSE 7)
                           ELSE 6
         IN  IF skipped THEN <<>>
             ELSE IF ~(10 * growth_num > 3 * growth_den) THEN <<>>
             ELSE IF ~(confidence >= confidence_threshold) THEN <<>>
             ELSE <<[keyword |-> keyword,
                     current_count |-> recent_value,
                     growth_rate |-> Round2(growth_num * 100, growth_den),
                     confidence |-> confidence,
                     trend_data |-> trend_data]>>

RECURSIVE PredictAll(_, _, _)
PredictAll(keywords, days, confidence_threshold) ==
    IF keywords = <<>> THEN <<>>
    ELSE Predict(Head(keywords), TrendData(days, Head(keywords)), confidence_threshold)
         \o PredictAll(Tail(keywords), days, confidence_threshold)

\* sort(key=(confidence, growth_rate), reverse=True): stable, largest first
TopicBefore(a, b) ==
    \/ a.confidence > b.confidence
    \/ a.confidence = b.confidence /\ a.growth_rate >= b.growth_rate

RECURSIVE InsertTopic(_, _)
InsertTopic(sorted, x) ==
    IF sorted = <<>> THEN <<x>>
    ELSE IF TopicBefore(Head(sorted), x)
    THEN <<Head(sorted)>> \o InsertTopic(Tail(sorted), x)
    ELSE <<x>> \o sorted

RECURSIVE SortTopics(_, _)
SortTopics(sorted, rest) ==
    IF rest = <<>> THEN sorted
    ELSE SortTopics(InsertTopic(sorted, Head(rest)), Tail(rest))

\* the method; days holds the data of 3, 2 and 1 days ago and of today
PredictTrendingTopics(lookahead_hours, confidence_threshold, days) ==
    LET lh == ValidateLimit(lookahead_hours, 6, 48)
    IN  IF lh.kind = "raise"
        THEN [success |-> FALSE, error |-> [code |-> lh.exc, message |-> lh.why]]
        ELSE IF ~(0 <= confidence_threshold /\ confidence_threshold <= 10)
        THEN [success |-> FALSE,
              error |-> [code |-> "InvalidParameterError",
                         message |-> "confidence_threshold must be between 0 and 1"]]
        ELSE IF ~days[4].data
        THEN [success |-> FALSE,
              error |-> [code |-> "DataNotFoundError",
                         message |-> "No data found for today"]]
        ELSE LET predicted_topics ==
                     SortTopics(<<>>, PredictAll(Keywords, days, confidence_threshold))
             IN  [success |-> TRUE,
                  predicted_topics |-> FirstN(predicted_topics, 20),
                  total_predicted |-> Len(predicted_topics),
                  lookahead_hours |-> lh.value,
                  confidence_threshold |-> confidence_threshold]

LookaheadArgs == {NoneVal, IntArg(49)}

TrendInit ==
    /\ trendCall = [lookahead_hours |-> NoneVal, confidence_threshold |-> 7,
                    days |-> <<>>]
    /\ trendRet = [kind |-> "none"]

\* predict_trending_topics(lookahead_hours, confidence_threshold), called once
PredictTrendingTopicsCall(lookahead_hours, confidence_threshold, days) ==
    /\ trendRet.kind = "none"
    /\ trendCall' = [lookahead_hours |-> lookahead_hours,
                     confidence_threshold |-> confidence_threshold, days |-> days]
    /\ trendRet' = [kind |-> "done",
                    result |-> PredictTrendingTopics(lookahead_hours,
                                                     confidence_threshold, days)]
    /\ UNCHANGED trendRest

TrendNext ==
    /\ trendRet.kind = "none"
    /\ \E lookahead_hours \in LookaheadArgs,
          confidence_threshold \in ConfidenceThresholds,
          days \in SeqsOfLen(TrendDays, 4) :
          PredictTrendingTopicsCall(lookahead_hours, confidence_threshold, days)

(***************************************************************************)
(* AnalyticsTools.detect_viral_topics (tools/analytics.py).  Today and     *)
(* yesterday are given by their Counters of keywords.                      *)
(***************************************************************************)
KeywordCounts == [KeywordSet -> 0..MaxKeywordCount]

\* what the parser finds for a day: no data, or titles with these keywords
KeywordDays == {NoDayData} \cup [data : {TRUE}, counts : KeywordCounts]

\* the threshold argument, as a fraction: 0.5, 1.0, 1.5, 3.0
ViralThresholds == {Frac(1, 2), Frac(1, 1), Frac(3, 2), Frac(3, 1)}

TimeWindowArgs == {NoneVal, IntArg(73)}

\* a keyword without a count yesterday: if current_count >= 5
NewTopicViral_Above(current_count) == current_count > 5

NewTopicViral(current_count) == current_count >= 5

\* the body of the loop over current_keywords: the viral topic, or nothing
DetectOne(keyword, current_count, previous_count, threshold) ==
    IF previous_count = 0
    THEN IF NewTopicViral(current_count)
         THEN <<[keyword |-> keyword,
                 current_count |-> current_count,
                 previous_count |-> previous_count,
                 growth_rate |-> [text |-> "New Topic"],
                 alert_level |-> "High"]>>
         ELSE <<>>
    ELSE \* growth_rate = current_count / previous_count >= threshold
         IF current_count * threshold.den >= threshold.num * previous_count
         THEN <<[keyword |-> keyword,
                 current_count |-> current_count,
                 previous_count |-> previous_count,
                 growth_rate |-> [hundredths |-> Round2(current_count, previous_count)],
                 alert_level |->
                     IF current_count * threshold.den > 2 * threshold.num * previous_count
                     THEN "High" ELSE "Medium"]>>
         ELSE <<>>

\* the loop over the keywords of today's Counter
RECURSIVE DetectAll(_, _, _, _)
DetectAll(keywords, current_keywords, previous_keywords, threshold) ==
    IF keywords = <<>> THEN <<>>
    ELSE LET keyword == Head(keywords)
             rest == DetectAll(Tail(keywords), current_keywords, previous_keywords,
                               threshold)
         IN  IF current_keywords[keyword] = 0 THEN rest
             ELSE DetectOne(keyword, current_keywords[keyword],
                            previous_keywords[keyword], threshold) \o rest

\* the sort key, in hundredths: current_count for a new topic, else growth_rate
ViralKey(x) ==
    IF x.growth_rate = [text |-> "New Topic"] THEN 100 * x.current_count
    ELSE x.growth_rate.hundredths

RECURSIVE InsertViral(_, _)
InsertViral(sorted, x) ==
    IF sorted = <<>> THEN <<x>>
    ELSE IF ViralKey(Head(sorted)) >= ViralKey(x)
    THEN <<Head(sorted)>> \o InsertViral(Tail(sorted), x)
    ELSE <<x>> \o sorted

RECURSIVE SortViral(_, _)
SortViral(sorted, rest) ==
    IF rest = <<>> THEN sorted
    ELSE SortViral(InsertViral(sorted, Head(rest)), Tail(rest))

\* the method; a day whose .data is false has no data: reading today then
\* raises DataNotFoundError, reading yesterday gives no titles
DetectViralTopics(threshold, time_window, current, previous) ==
    LET tw == ValidateLimit(time_window, 24, 72)
        previous_keywords == IF previous.data THEN previous.counts
                             ELSE [k \in KeywordSet |-> 0]
    IN  IF threshold.num < threshold.den
        THEN [success |-> FALSE,
              error |-> [code |-> "InvalidParameterError",
                         message |-> "threshold must be >= 1.0"]]
        ELSE IF tw.kind = "raise"
        THEN [success |-> FALSE, error |-> [code |-> tw.exc, message |-> tw.why]]
        ELSE IF ~current.data
        THEN [success |-> FALSE,
              error |-> [code |-> "DataNotFoundError", message |-> "no data"]]
        ELSE LET viral_topics ==
                     SortViral(<<>>, DetectAll(Keywords, current.counts,
                                               previous_keywords, threshold))
             IN  IF viral_topics = <<>>
                 THEN [success |-> TRUE, viral_topics |-> <<>>, total_detected |-> 0,
                       message |-> "No topics detected"]
                 ELSE [success |-> TRUE, viral_topics |-> viral_topics,
                       total_detected |-> Len(viral_topics),
                       threshold |-> threshold, time_window |-> tw.value]

ViralInit ==
    /\ viralCall = [threshold |-> Frac(3, 1), time_window |-> NoneVal,
                    current |-> NoDayData, previous |-> NoDayData]
    /\ viralRet = [kind |-> "none"]

\* detect_viral_topics(threshold, time_window), called once on some data
DetectViralTopicsCall(threshold, time_window, current, previous) ==
    /\ viralRet.kind = "none"
    /\ viralCall' = [threshold |-> threshold, time_window |-> time_window,
                     current |-> current, previous |-> previous]
    /\ viralRet' = [kind |-> "done",
                    result |-> DetectViralTopics(threshold, time_window,
                                                 current, previous)]
    /\ UNCHANGED viralRest

ViralNext ==
    /\ viralRet.kind = "none"
    /\ \E threshold \in ViralThresholds, time_window \in TimeWindowArgs,
          current \in KeywordDays, previous \in KeywordDays :
          DetectViralTopicsCall(threshold, time_window, current, previous)

(***************************************************************************)
(* The two health-check scripts (check_news_sources.py and                 *)
(* check_sources_health.py).  A feed is the answer to requests.get: an     *)
(* exception, or a status code and a body.  An XML element is its text and *)
(* its number of children; a missing element is None.  Names stand for the *)
(* (name, url) pairs of the sources dict, in the dict's order.             *)
(***************************************************************************)
Elem(text, children) == [text |-> text, children |-> children]

\* bool(element) in xml.etree.ElementTree: an element without children is false
ElemTruthy(elem) == elem # NoneVal /\ elem.children > 0

\* the expression  a or b  on elements
ElemOr(a, b) == IF ElemTruthy(a) THEN a ELSE b

\* the expression  a or b  on lists
ListOr(a, b) == IF a # <<>> THEN a ELSE b

FeedItem(title, link, atom_title, atom_link, pubDate, atom_updated) ==
    [title |-> title, link |-> link, atom_title |-> atom_title,
     atom_link |-> atom_link, pubDate |-> pubDate, atom_updated |-> atom_updated]

\* <item> elements of an RSS feed
RssItems ==
    {FeedItem(Elem("T", 0), Elem("u", 0), NoneVal, NoneVal,
              Elem("Mon, 02 Nov 2026 10:00:00 GMT", 0), NoneVal),
     FeedItem(Elem("T", 1), Elem("u", 0), NoneVal, Elem("", 0), NoneVal, NoneVal),
     FeedItem(Elem("T", 1), NoneVal, NoneVal, NoneVal, Elem("soon", 0), NoneVal),
     FeedItem(NoneVal, Elem("u", 0), NoneVal, NoneVal, NoneVal, NoneVal)}

\* <entry> elements of an Atom feed
AtomEntries ==
    {FeedItem(NoneVal, NoneVal, Elem("T", 0), Elem("", 0), NoneVal,
              Elem("2026-11-02T10:00:00Z", 0))}

\* a parsed body: what root.findall gives for './/item' and for the Atom entry
Feeds == [items : SeqsUpTo(RssItems, MaxFeedItems),
          entries : SeqsUpTo(AtomEntries, MaxFeedItems)]

ParseError == [parse_error |-> TRUE]

Responses ==
    [kind : {"raise"}, exc : {"Timeout", "ConnectionError"}]
    \cup {[kind |-> "response", status_code |-> 404, content |-> ParseError],
          [kind |-> "response", status_code |-> 200, content |-> ParseError]}
    \cup [kind : {"response"}, status_code : {200}, content : Feeds]

Health(is_healthy, status_msg, item_count) ==
    [healthy |-> is_healthy, status |-> status_msg, items |-> item_count]

\* check_source_health (check_news_sources.py)
CheckSourceHealth(response) ==
    IF response.kind = "raise"
    THEN Health(FALSE, IF response.exc = "Timeout" THEN "Timeout"
                       ELSE "Connection Error", 0)
    ELSE IF response.status_code # 200
    THEN Health(FALSE, "HTTP error", 0)
    ELSE IF response.content = ParseError
    THEN Health(FALSE, "XML Parse Error", 0)
    ELSE LET items == ListOr(response.content.items, response.content.entries)
             item_count == Len(items)
         IN  IF item_count = 0
             THEN Health(FALSE, "No items found in feed", 0)
             ELSE LET first_item == items[1]
                      title_elem == ElemOr(first_item.title, first_item.atom_title)
                      title_text == IF title_elem # NoneVal THEN title_elem.text
                                    ELSE ""
                      link_elem == ElemOr(first_item.link, first_item.atom_link)
                  IN  IF title_text = ""
                      THEN Health(FALSE, "Items missing title", item_count)
                      ELSE IF link_elem = NoneVal
                      THEN Health(FALSE, "Items missing link", item_count)
                      ELSE Health(TRUE, "OK", item_count)

\* the elements of a sequence
SeqRange(q) == {q[i] : i \in DOMAIN q}

\* the names of the sources used when sources.json does not exist
DefaultSources ==
    <<"Hacker News", "TechCrunch", "The Verge", "Ars Technica", "Wired",
      "MIT Tech Review", "Engadget", "VentureBeat", "ZDNet", "TechRadar">>

SourceNames == {"Feed A", "Feed B"}

\* the "sources" dicts a sources.json can hold
SourceDicts ==
    {s \in SeqsUpTo(SourceNames, MaxSources) :
        \A i, j \in DOMAIN s : s[i] = s[j] => i = j}

MissingFile == [kind |-> "missing"]

InvalidJson == [kind |-> "invalid"]

\* sources.json; last_checked and total_sources are left out
SourcesJson(sources) == [kind |-> "json", sources |-> sources]

SourcesFiles == {InvalidJson} \cup {SourcesJson(s) : s \in SourceDicts}

\* load_sources (check_news_sources.py)
LoadSources(file) ==
    IF file = MissingFile THEN DefaultSources
    ELSE IF file = InvalidJson THEN <<>>
    ELSE file.sources

\* the answers of the feeds of some sources; the default sources all answer alike
Fetches(sources) ==
    IF sources = DefaultSources
    THEN {[n \in SeqRange(DefaultSources) |-> r] : r \in Responses}
    ELSE [SeqRange(sources) -> Responses]

\* the loop of main over sources.items(): the results list
NewsResults(sources, fetch) ==
    [i \in DOMAIN sources |->
        [name |-> sources[i]] @@ CheckSourceHealth(fetch[sources[i]])]

\* NamesWhere keeping every name
NamesWhere_All(check_results, healthy) ==
    [i \in DOMAIN check_results |-> check_results[i].name]

\* the names of the results that are healthy (or not), in order
RECURSIVE NamesWhere(_, _)
NamesWhere(check_results, healthy) ==
    IF check_results = <<>> THEN <<>>
    ELSE (IF Head(check_results).healthy = healthy
          THEN <<Head(check_results).name>> ELSE <<>>)
         \o NamesWhere(Tail(check_results), healthy)

HealthInit ==
    /\ sources_json = MissingFile
    /\ newsRun = [kind |-> "none"]
    /\ healthRun = [kind |-> "none"]
    /\ health_report = MissingFile

\* somebody writes sources.json before the scripts run
WriteSourcesFile(file) ==
    /\ sources_json = MissingFile
    /\ newsRun.kind = "none"
    /\ healthRun.kind = "none"
    /\ sources_json' = file
    /\ UNCHANGED <<newsRun, healthRun, health_report>>
    /\ UNCHANGED healthRest

\* main of check_news_sources.py, with save_working_sources
CheckNewsSourcesMain(fetch) ==
    LET sources == LoadSources(sources_json)
        check_results == NewsResults(sources, fetch)
        working_sources == NamesWhere(check_results, TRUE)
        broken_sources == NamesWhere(check_results, FALSE)
    IN  /\ newsRun.kind = "none"
        /\ IF sources = <<>>
           THEN /\ newsRun' = [kind |-> "done", sources |-> sources, fetch |-> fetch,
                               checked |-> FALSE]
                /\ UNCHANGED sources_json
           ELSE /\ newsRun' = [kind |-> "done", sources |-> sources, fetch |-> fetch,
                               checked |-> TRUE,
                               results |-> check_results,
                               total |-> Len(sources),
                               working |-> Len(working_sources),
                               broken |-> Len(broken_sources),
                               saved |-> working_sources # <<>>]
                /\ sources_json' = IF working_sources # <<>>
                                   THEN SourcesJson(working_sources)
                                   ELSE sources_json
        /\ UNCHANGED <<healthRun, health_report>>
        /\ UNCHANGED healthRest

NewsSourcesNext ==
    \/ \E file \in SourcesFiles : WriteSourcesFile(file)
    \/ /\ newsRun.kind = "none"
       /\ \E fetch \in Fetches(LoadSources(sources_json)) : CheckNewsSourcesMain(fetch)

\* parsedate_to_datetime, then datetime.fromisoformat, then strftime
ParseItemDate(text) ==
    IF text \in {"Mon, 02 Nov 2026 10:00:00 GMT", "2026-11-02T10:00:00Z"}
    THEN [date |-> "2026-11-02 10:00 UTC"]
    ELSE NoneVal

\* the loop over the date tags of the first item (the item's date elements in
\* the order of the tags)
RECURSIVE LastItemDate(_)
LastItemDate(date_elems) ==
    IF date_elems = <<>> THEN NoneVal
    ELSE LET date_elem == Head(date_elems)
         IN  IF date_elem # NoneVal /\ date_elem.text # ""
                /\ ParseItemDate(date_elem.text) # NoneVal
             THEN ParseItemDate(date_elem.text)
             ELSE LastItemDate(Tail(date_elems))

Details(status, items_found, error, last_item_date) ==
    [status |-> status, items_found |-> items_found, error |-> error,
     last_item_date |-> last_item_date]

\* check_rss_source (check_sources_health.py); response_time is left out
CheckRssSource(response) ==
    IF response.kind = "raise"
    THEN [healthy |-> FALSE,
          details |-> Details("error", 0,
                              IF response.exc = "Timeout" THEN "Request timeout"
                              ELSE "Connection error", NoneVal)]
    ELSE IF response.status_code # 200
    THEN [healthy |-> FALSE, details |-> Details("error", 0, "HTTP error", NoneVal)]
    ELSE IF response.content = ParseError
    THEN [healthy |-> FALSE, details |-> Details("error", 0, "Invalid XML", NoneVal)]
    ELSE LET items == ListOr(response.content.items, response.content.entries)
         IN  IF Len(items) = 0
             THEN [healthy |-> FALSE,
                   details |-> Details("warning", 0, "No items found in feed",
                                       NoneVal)]
             ELSE [healthy |-> TRUE,
                   details |-> Details("healthy", Len(items), "",
                                       LastItemDate(<<items[1].pubDate,
                                                      items[1].atom_updated>>))]

\* load_sources_from_file (check_sources_health.py): invalid JSON is not caught
LoadSourcesFromFile(file) ==
    IF file = MissingFile THEN [kind |-> "return", sources |-> DefaultSources]
    ELSE IF file = InvalidJson THEN [kind |-> "raise", exc |-> "JSONDecodeError"]
    ELSE [kind |-> "return", sources |-> file.sources]

\* the sources the second script goes on to check
SourcesToCheck(file) ==
    IF LoadSourcesFromFile(file).kind = "return"
    THEN LoadSourcesFromFile(file).sources ELSE <<>>

\* the loop of main over sources.items(): the results list
HealthResults(sources, fetch) ==
    [i \in DOMAIN sources |->
        [source |-> sources[i]] @@ CheckRssSource(fetch[sources[i]])]

\* how many of the results are healthy (or not)
CountWhere(check_results, healthy) ==
    Cardinality({i \in DOMAIN check_results : check_results[i].healthy = healthy})

\* sys.exit(0 if failed_count == 0 else 1)
ExitStatus(failed_count) == IF failed_count = 0 THEN 0 ELSE 1

\* an uncaught exception ends the interpreter with status 1
Traceback(loaded, sources, fetch, exc) ==
    [kind |-> "done", loaded |-> loaded, sources |-> sources,
     fetch |-> fetch, results |-> <<>>, exc |-> exc, exit_status |-> 1]

\* main of check_sources_health.py, with save_health_report
CheckSourcesHealthMain(fetch) ==
    LET load == LoadSourcesFromFile(sources_json)
        sources == load.sources
        check_results == HealthResults(sources, fetch)
        healthy_count == CountWhere(check_results, TRUE)
        failed_count == CountWhere(check_results, FALSE)
    IN  /\ healthRun.kind = "none"
        /\ IF load.kind = "raise"
           THEN /\ healthRun' = Traceback(FALSE, <<>>, fetch, load.exc)
                /\ UNCHANGED health_report
           ELSE IF Len(sources) = 0
           THEN \* healthy_count/len(sources) in the summary
                /\ healthRun' = Traceback(TRUE, sources, fetch, "ZeroDivisionError")
                /\ UNCHANGED health_report
           ELSE /\ healthRun' = [kind |-> "done", loaded |-> TRUE,
                                 sources |-> sources, fetch |-> fetch,
                                 results |-> check_results, exc |-> "",
                                 exit_status |-> ExitStatus(failed_count)]
                /\ health_report' =
                       [kind |-> "json",
                        total_sources |-> Len(check_results),
                        healthy_sources |-> healthy_count,
                        failed_sources |->
                            Cardinality({i \in DOMAIN check_results :
                                check_results[i].details.status = "error"})]
        /\ UNCHANGED <<sources_json, newsRun>>
        /\ UNCHANGED healthRest

SourcesHealthNext ==
    \/ \E file \in SourcesFiles : WriteSourcesFile(file)
    \/ /\ healthRun.kind = "none"
       /\ \E fetch \in Fetches(SourcesToCheck(sources_json)) :
             CheckSourcesHealthMain(fetch)

(***************************************************************************)
(* categorize_news (fetch_english_news.py).  A string is the sequence of   *)
(* its characters.                                                         *)
(***************************************************************************)
UpperCase == <<"A", "B", "C", "D", "E", "F", "G", "H", "I", "J", "K", "L", "M",
               "N", "O", "P", "Q", "R", "S", "T", "U", "V", "W", "X", "Y", "Z">>

LowerCase == <<"a", "b", "c", "d", "e", "f", "g", "h", "i", "j", "k", "l", "m",
               "n", "o", "p", "q", "r", "s", "t", "u", "v", "w", "x", "y", "z">>

\* str.lower on one character
LowerChar(ch) ==
    IF \E i \in DOMAIN UpperCase : UpperCase[i] = ch
    THEN LowerCase[CHOOSE i \in DOMAIN UpperCase : UpperCase[i] = ch]
    ELSE ch

\* str.lower
StrLower(s) == [i \in DOMAIN s |-> LowerChar(s[i])]

\* s starts with sub
StartsWith(s, sub) ==
    /\ Len(sub) <= Len(s)
    /\ SubSeq(s, 1, Len(sub)) = sub

\* sub in s, as a prefix only
StrContains_Prefix(s, sub) == StartsWith(s, sub)

\* the operator  sub in s  on strings
RECURSIVE StrContains(_, _)
StrContains(s, sub) ==
    \/ StartsWith(s, sub)
    \/ s # <<>> /\ StrContains(Tail(s), sub)

\* the dict TECH_KEYWORDS, in its order
TECH_KEYWORDS ==
    <<[category |-> "AI & Machine Learning",
      keywords |-> <<
            <<"A", "I">>,
            <<"A", "r", "t", "i", "f", "i", "c", "i", "a", "l", " ", "I", "n", "t", "e", "l", "l", "i", "g", "e", "n", "c", "e">>,
            <<"M", "a", "c", "h", "i", "n", "e", " ", "L", "e", "a", "r", "n", "i", "n", "g">>,
            <<"C", "h", "a", "t", "G", "P", "T">>,
            <<"G", "P", "T", "-", "4">>,
            <<"C", "l", "a", "u", "d", "e">>,
            <<"A", "n", "t", "h", "r", "o", "p", "i", "c">>,
            <<"G", "e", "m", "i", "n", "i">>,
            <<"D", "e", "e", "p", "M", "i", "n", "d">>,
            <<"S", "o", "r", "a">>,
            <<"N", "e", "u", "r", "a", "l", " ", "N", "e", "t", "w", "o", "r", "k">>,
            <<"L", "L", "M">>,
            <<"O", "p", "e", "n", "A", "I">>,
            <<"D", "e", "e", "p", " ", "L", "e", "a", "r", "n", "i", "n", "g">>,
            <<"G", "e", "n", "A", "I">>,
            <<"G", "e", "n", "e", "r", "a", "t", "i", "v", "e", " ", "A", "I">>>>],
      [category |-> "Semiconductors & Hardware",
      keywords |-> <<
            <<"C", "h", "i", "p">>,
            <<"S", "e", "m", "i", "c", "o", "n", "d", "u", "c", "t", "o", "r">>,
            <<"L", "i", "t", "h", "o", "g", "r", "a", "p", "h", "y">>,
            <<"G", "P", "U">>,
            <<"C", "P", "U">>,
            <<"N", "V", "I", "D", "I", "A">>,
            <<"A", "M", "D">>,
            <<"I", "n", "t", "e", "l">>,
            <<"T", "S", "M", "C">>,
            <<"P", "r", "o", "c", "e", "s", "s", "o", "r">>,
            <<"S", "i", "l", "i", "c", "o", "n">>>>],
      [category |-> "Cloud & Enterprise",
      keywords |-> <<
            <<"C", "l", "o", "u", "d">>,
            <<"A", "W", "S">>,
            <<"A", "z", "u", "r", "e">>,
            <<"G", "o", "o", "g", "l", "e", " ", "C", "l", "o", "u", "d">>,
            <<"S", "a", "a", "S">>,
            <<"E", "n", "t", "e", "r", "p", "r", "i", "s", "e">>,
            <<"D", "a", "t", "a", " ", "C", "e", "n", "t", "e", "r">>,
            <<"S", "e", "r", "v", "e", "r", "l", "e", "s", "s">>,
            <<"K", "u", "b", "e", "r", "n", "e", "t", "e", "s">>>>],
      [category |-> "Cybersecurity",
      keywords |-> <<
            <<"S", "e", "c", "u", "r", "i", "t", "y">>,
            <<"C", "y", "b", "e", "r">>,
            <<"B", "r", "e", "a", "c", "h">>,
            <<"H", "a", "c", "k">>,
            <<"V", "u", "l", "n", "e", "r", "a", "b", "i", "l", "i", "t", "y">>,
            <<"E", "n", "c", "r", "y", "p", "t", "i", "o", "n">>,
            <<"P", "r", "i", "v", "a", "c", "y">>,
            <<"R", "a", "n", "s", "o", "m", "w", "a", "r", "e">>,
            <<"Z", "e", "r", "o", "-", "d", "a", "y">>>>],
      [category |-> "Software Development",
      keywords |-> <<
            <<"P", "r", "o", "g", "r", "a", "m", "m", "i", "n", "g">>,
            <<"D", "e", "v", "e", "l", "o", "p", "e", "r">>,
            <<"G", "i", "t", "H", "u", "b">>,
            <<"O", "p", "e", "n", " ", "S", "o", "u", "r", "c", "e">>,
            <<"A", "P", "I">>,
            <<"F", "r", "a", "m", "e", "w", "o", "r", "k">>,
            <<"P", "y", "t", "h", "o", "n">>,
            <<"J", "a", "v", "a", "S", "c", "r", "i", "p", "t">>,
            <<"R", "u", "s", "t">>>>],
      [category |-> "Mobile & Devices",
      keywords |-> <<
            <<"i", "P", "h", "o", "n", "e">>,
            <<"A", "n", "d", "r", "o", "i", "d">>,
            <<"S", "m", "a", "r", "t", "p", "h", "o", "n", "e">>,
            <<"M", "o", "b", "i", "l", "e">>,
            <<"T", "a", "b", "l", "e", "t">>,
            <<"A", "p", "p", "l", "e">>,
            <<"S", "a", "m", "s", "u", "n", "g">>,
            <<"G", "o", "o", "g", "l", "e", " ", "P", "i", "x", "e", "l">>>>],
      [category |-> "Startups & Funding",
      keywords |-> <<
            <<"S", "t", "a", "r", "t", "u", "p">>,
            <<"F", "u", "n", "d", "i", "n", "g">>,
            <<"V", "C">>,
            <<"V", "e", "n", "t", "u", "r", "e", " ", "C", "a", "p", "i", "t", "a", "l">>,
            <<"I", "P", "O">>,
            <<"A", "c", "q", "u", "i", "s", "i", "t", "i", "o", "n">>,
            <<"S", "e", "r", "i", "e", "s", " ", "A">>,
            <<"S", "e", "r", "i", "e", "s", " ", "B">>,
            <<"I", "n", "v", "e", "s", "t", "m", "e", "n", "t">>>>]>>

\* the titles of the news items fetched
NewsTitles ==
    {<<>>,
     <<"S", "a", "i", "d", " ", "s", "o">>,
     <<"N", "e", "w", " ", "G", "P", "U", " ", "C", "h", "i", "p">>,
     <<"A", "I", " ", "c", "h", "i", "p">>,
     <<"C", "L", "O", "U", "D", " ", "S", "e", "c", "u", "r", "i", "t", "y">>,
     <<"A", "p", "p", "l", "e", " ", "A", "P", "I">>,
     <<"W", "e", "e", "k", "e", "n", "d", " ", "g", "i", "f", "t", " ", "g", "u", "i", "d", "e">>}

\* the lists of news items given to categorize_news
NewsItems == SeqsUpTo([title : NewsTitles], MaxNews)

\* the loop over the keywords of one category
RECURSIVE AnyKeyword(_, _)
AnyKeyword(title_lower, keywords) ==
    /\ keywords # <<>>
    /\ \/ StrContains(title_lower, StrLower(Head(keywords)))
       \/ AnyKeyword(title_lower, Tail(keywords))

\* the loop over TECH_KEYWORDS.items(): the category appended to, if any
RECURSIVE MatchCategory(_, _)
MatchCategory(title_lower, table) ==
    IF table = <<>> THEN [matched |-> FALSE]
    ELSE IF AnyKeyword(title_lower, Head(table).keywords)
    THEN [matched |-> TRUE, category |-> Head(table).category]
    ELSE MatchCategory(title_lower, Tail(table))

\* defaultdict(list)
NoCategories == [category \in {} |-> <<>>]

\* categorized[category].append(item)
AppendTo(categorized, category, item) ==
    IF category \in DOMAIN categorized
    THEN [categorized EXCEPT ![category] = Append(@, item)]
    ELSE categorized @@ (category :> <<item>>)

\* the loop over news_items, then the addition of "General Tech News"
RECURSIVE Categorize(_, _, _)
Categorize(news_items, categorized, uncategorized) ==
    IF news_items = <<>>
    THEN IF uncategorized # <<>>
         THEN [category \in DOMAIN categorized \cup {"General Tech News"} |->
                  IF category = "General Tech News" THEN uncategorized
                  ELSE categorized[category]]
         ELSE categorized
    ELSE LET item == Head(news_items)
             match == MatchCategory(StrLower(item.title), TECH_KEYWORDS)
         IN  IF match.matched
             THEN Categorize(Tail(news_items),
                             AppendTo(categorized, match.category, item),
                             uncategorized)
             ELSE Categorize(Tail(news_items), categorized,
                             Append(uncategorized, item))

CategorizeNews(news_items) == Categorize(news_items, NoCategories, <<>>)

CategorizeInit ==
    /\ catCall = <<>>
    /\ catRet = [kind |-> "none"]

\* categorize_news(news_items), called once
CategorizeNewsCall(news_items) ==
    /\ catRet.kind = "none"
    /\ catCall' = news_items
    /\ catRet' = [kind |-> "done", result |-> CategorizeNews(news_items)]
    /\ UNCHANGED catRest

CategorizeNext ==
    /\ catRet.kind = "none"
    /\ \E news_items \in NewsItems : CategorizeNewsCall(news_items)

(***************************************************************************)
(* DataQueryTools.get_trending_topics (tools/data_query.py) over           *)
(* DataService.get_trending_topics and the cache                           *)
(***************************************************************************)
StrArg(s) == [str |-> s]

IsStr(mode) == DOMAIN mode = {"str"}

\* validate_mode(mode, valid_modes, default)
ValidateMode(mode, valid_modes, default) ==
    IF mode = NoneVal THEN [kind |-> "return", value |-> default]
    ELSE IF ~IsStr(mode) THEN InvalidParameterError("Mode must be a string.")
    ELSE IF \A i \in DOMAIN valid_modes : valid_modes[i] # mode.str
    THEN InvalidParameterError("Invalid mode")
    ELSE [kind |-> "return", value |-> mode.str]

\* the exception a validator raised, as the except clauses see it
ValidationError(v) ==
    [kind |-> "raise", cls |-> v.exc,
     suggestion |-> v.why \in {"Invalid mode", "Limit cannot exceed max_limit"},
     step |-> "validate"]

\* the exception the service raised, as the except clauses see it
ServiceError(served) ==
    [kind |-> "raise", cls |-> served.exc,
     suggestion |-> served.exc = "DataNotFoundError", step |-> "service"]

\* DataService.get_trending_topics(top_n, mode): what it serves, and the cache
\* afterwards
ServeTrendingTopics(c, ts, clock, top_n, mode, tree) ==
    LET q == [op |-> "get_trending_topics", top_n |-> top_n, mode |-> mode]
        cache_key == CacheKey(q)
        got == CacheGet(c, ts, clock, cache_key, trending_topics_ttl)
        computed == Compute(q, tree)
    IN  IF Truthy(got.ret)
        THEN [served |-> [kind |-> "return", value |-> got.ret],
              cache |-> got.cache, timestamps |-> got.timestamps]
        ELSE IF computed.kind = "raise"
        THEN [served |-> computed, cache |-> got.cache, timestamps |-> got.timestamps]
        ELSE LET put == CacheSet(got.cache, got.timestamps, clock, cache_key,
                                 computed.value)
             IN  [served |-> computed, cache |-> put.cache,
                  timestamps |-> put.timestamps]

TopNArgsOfTool == {NoneVal, IntArg(5), IntArg(0)}

ModeArgs ==
    {NoneVal, [other |-> "int"]}
    \cup {StrArg(s) : s \in {"daily", "current", "incremental", "weekly"}}

TrendingInit ==
    /\ ttCall = [top_n |-> NoneVal, mode |-> NoneVal, tree |-> "some"]
    /\ ttRet = [kind |-> "none"]

\* the tool method, from the validation to the returned dict
GetTrendingTopicsTool(top_n_arg, mode_arg, tree) ==
    LET method == "DataQueryTools.get_trending_topics"
        top_n == ValidateTopN(top_n_arg, 10)
        mode == ValidateMode(mode_arg, <<"daily", "current", "incremental">>,
                             "current")
        service == ServeTrendingTopics(cache, timestamps, now, top_n.value,
                                       mode.value, tree)
    IN  /\ ttCall' = [top_n |-> top_n_arg, mode |-> mode_arg, tree |-> tree]
        /\ IF top_n.kind = "raise"
           THEN /\ ttRet' = [kind |-> "done",
                             result |-> ToolBoundary(method,
                                                     ValidationError(top_n)).result]
                /\ UNCHANGED <<cache, timestamps>>
           ELSE IF mode.kind = "raise"
           THEN /\ ttRet' = [kind |-> "done",
                             result |-> ToolBoundary(method,
                                                     ValidationError(mode)).result]
                /\ UNCHANGED <<cache, timestamps>>
           ELSE /\ ttRet' =
                       [kind |-> "done",
                        result |->
                            IF service.served.kind = "raise"
                            THEN ToolBoundary(method,
                                              ServiceError(service.served)).result
                            ELSE [success |-> TRUE,
                                  trending_result |-> service.served.value]]
                /\ cache' = service.cache
                /\ timestamps' = service.timestamps
        /\ UNCHANGED <<now, cacheRet, written>>
        /\ UNCHANGED ttRest

TrendingNext ==
    \E top_n_arg \in TopNArgsOfTool, mode_arg \in ModeArgs, tree \in TreeStates :
        GetTrendingTopicsTool(top_n_arg, mode_arg, tree)

(***************************************************************************)
(* DataService.search_news_by_keyword (services/data_service.py).  Days    *)
(* are numbered; today is the last of them.  Strings are sequences of      *)
(* characters, as for categorize_news.                                     *)
(***************************************************************************)
SearchDays == {1, 2}

SearchToday == 2

SearchPlatforms == <<"p1", "p2">>

\* the titles a platform file can hold, with their ranks
SearchTitles ==
    <<[title |-> <<"A", "I", " ", "c", "h", "i", "p">>, ranks |-> <<1, 4>>],
      [title |-> <<"R", "a", "i", "n">>, ranks |-> <<>>]>>

\* the titles dict of one platform: some of the titles, in their order
PlatformTitles ==
    {<<>>, <<SearchTitles[1]>>, <<SearchTitles[2]>>, SearchTitles}

\* what read_all_titles_for_date finds for a day: DataNotFoundError, or all_titles
SearchDayData ==
    {NoDayData} \cup [data : {TRUE}, all_titles : [SeqRange(SearchPlatforms) ->
                                                       PlatformTitles]]

SearchKeywords == {<<"C", "H", "I", "P">>, <<"a", "i">>, <<"z", "z">>}

\* the date_range argument: None, or (start_date, end_date)
SearchRanges ==
    {NoneVal} \cup [start_date : SearchDays, end_date : SearchDays]

\* the platforms argument: None, or a list of platform ids
SearchPlatformArgs == {NoneVal, [list |-> <<"p1">>]}

SearchLimits == {NoneVal, IntArg(0), IntArg(1), IntArg(3)}

\* the platforms read_all_titles_for_date reads, in order
PlatformsRead(platforms) ==
    IF platforms = NoneVal THEN SearchPlatforms ELSE platforms.list

\* the loop over titles.items() of one platform: the results appended
RECURSIVE MatchTitles(_, _, _, _)
MatchTitles(keyword, platform_id, titles, current_date) ==
    IF titles = <<>> THEN <<>>
    ELSE LET info == Head(titles)
             rest == MatchTitles(keyword, platform_id, Tail(titles), current_date)
         IN  IF StrContains(StrLower(info.title), StrLower(keyword))
             THEN <<[title |-> info.title,
                     platform |-> platform_id,
                     ranks |-> info.ranks,
                     count |-> Len(info.ranks),
                     avg_rank |-> IF info.ranks # <<>>
                                  THEN Round2(Sum(info.ranks), Len(info.ranks))
                                  ELSE 0,
                     date |-> current_date]>> \o rest
             ELSE rest

\* the loop over all_titles.items() of one day
RECURSIVE MatchPlatforms(_, _, _, _)
MatchPlatforms(keyword, platform_ids, all_titles, current_date) ==
    IF platform_ids = <<>> THEN <<>>
    ELSE MatchTitles(keyword, Head(platform_ids), all_titles[Head(platform_ids)],
                     current_date)
         \o MatchPlatforms(keyword, Tail(platform_ids), all_titles, current_date)

\* the while loop over the days from current_date to end_date
RECURSIVE MatchDays(_, _, _, _, _)
MatchDays(keyword, platforms, files, current_date, end_date) ==
    IF current_date > end_date THEN <<>>
    ELSE (IF files[current_date].data
          THEN MatchPlatforms(keyword, PlatformsRead(platforms),
                              files[current_date].all_titles, current_date)
          ELSE <<>>)
         \o MatchDays(keyword, platforms, files, current_date + 1, end_date)

\* platform_distribution: the Counter of the platforms of the results
PlatformDistribution(found) ==
    LET platform_ids == {found[i].platform : i \in DOMAIN found}
    IN  [p \in platform_ids |->
            Cardinality({i \in DOMAIN found : found[i].platform = p})]

\* total_ranks: the ranks of all results
RECURSIVE TotalRanks(_)
TotalRanks(found) ==
    IF found = <<>> THEN <<>> ELSE Head(found).ranks \o TotalRanks(Tail(found))

\* if limit is not None and limit > 0: results = results[:limit]
Truncate_Always(found, limit) ==
    IF limit # NoneVal THEN FirstN(found, limit.int) ELSE found

Truncate(found, limit) ==
    IF limit # NoneVal /\ limit.int > 0 THEN FirstN(found, limit.int) ELSE found

\* the method
SearchNewsByKeyword(keyword, date_range, platforms, limit, files) ==
    LET start_date == IF date_range # NoneVal THEN date_range.start_date
                      ELSE SearchToday
        end_date == IF date_range # NoneVal THEN date_range.end_date
                    ELSE SearchToday
        found == MatchDays(keyword, platforms, files, start_date, end_date)
        total_ranks == TotalRanks(found)
    IN  IF found = <<>>
        THEN [kind |-> "raise", exc |-> "DataNotFoundError"]
        ELSE [kind |-> "return",
              value |->
                  [results |-> Truncate(found, limit),
                   total |-> Len(Truncate(found, limit)),
                   total_found |-> Len(found),
                   statistics |->
                       [platform_distribution |-> PlatformDistribution(found),
                        avg_rank |-> IF total_ranks # <<>>
                                     THEN Round2(Sum(total_ranks), Len(total_ranks))
                                     ELSE 0,
                        keyword |-> keyword]]]

SearchInit ==
    /\ searchCall = [keyword |-> <<"z", "z">>, date_range |-> NoneVal,
                     platforms |-> NoneVal, limit |-> NoneVal,
                     files |-> [d \in SearchDays |-> NoDayData]]
    /\ searchRet = [kind |-> "none"]

\* search_news_by_keyword, called once over some files
SearchNewsByKeywordCall(keyword, date_range, platforms, limit, files) ==
    /\ searchRet.kind = "none"
    /\ searchCall' = [keyword |-> keyword, date_range |-> date_range,
                      platforms |-> platforms, limit |-> limit, files |-> files]
    /\ searchRet' = [kind |-> "done",
                     ret |-> SearchNewsByKeyword(keyword, date_range, platforms,
                                                 limit, files)]
    /\ UNCHANGED searchRest

SearchNext ==
    /\ searchRet.kind = "none"
    /\ \E keyword \in SearchKeywords, date_range \in SearchRanges,
          platforms \in SearchPlatformArgs, limit \in SearchLimits,
          files \in [SearchDays -> SearchDayData] :
          SearchNewsByKeywordCall(keyword, date_range, platforms, limit, files)

(***************************************************************************)
(* The tools documented with "limit ... max 100": analyze_sentiment and    *)
(* find_similar_news (tools/analytics.py), search_related_news_history     *)
(* (tools/search_tools.py).  Each validates limit with                     *)
(* validate_limit(limit, default=50) and cuts its sorted list to limit.    *)
(***************************************************************************)
\* the max_limit validate_limit takes when the caller gives none
DefaultMaxLimit == 1000

\* the number of items a tool found before it cuts the list
FoundCounts == {0, 1, 100, 101, 150, 1001}

LimitedTools ==
    {"AnalyticsTools.analyze_sentiment", "AnalyticsTools.find_similar_news",
     "SearchTools.search_related_news_history"}

\* the tool from validate_limit to the returned dict, given the items it found
LimitedTool(method, limit_arg, found) ==
    LET limit == ValidateLimit(limit_arg, 50, DefaultMaxLimit)
    IN  IF limit.kind = "raise"
        THEN ToolBoundary(method, ValidationError(limit)).result
        ELSE IF found = 0
        THEN IF method = "SearchTools.search_related_news_history"
             THEN [success |-> TRUE, returned_count |-> 0, total_found |-> 0]
             ELSE ToolBoundary(method,
                               [kind |-> "raise", cls |-> "DataNotFoundError",
                                suggestion |-> TRUE, step |-> "service"]).result
        ELSE [success |-> TRUE,
              total_found |-> found,
              returned_count |-> Len(FirstN([i \in 1..found |-> i], limit.value)),
              requested_limit |-> limit.value]

DocLimitInit ==
    /\ docCall = [method |-> "", limit |-> NoneVal, found |-> 0]
    /\ docRet = [kind |-> "none"]

\* one call of one of the three tools
LimitedToolCall(method, limit_arg, found) ==
    /\ docRet.kind = "none"
    /\ docCall' = [method |-> method, limit |-> limit_arg, found |-> found]
    /\ docRet' = [kind |-> "done", result |-> LimitedTool(method, limit_arg, found)]
    /\ UNCHANGED docRest

DocLimitNext ==
    /\ docRet.kind = "none"
    /\ \E method \in LimitedTools, limit_arg \in LimitArgs, found \in FoundCounts :
          LimitedToolCall(method, limit_arg, found)

(***************************************************************************)
(* parse_date_query on "(last|this) <weekday>" (utils/date_parser.py),     *)
(* with the clock read on each day of two weeks around a new year          *)
(***************************************************************************)
WEEKDAY_MAPPING ==
    [w \in {"monday", "tuesday", "wednesday", "thursday", "friday", "saturday",
            "sunday"} |->
        CASE w = "monday" -> 0 [] w = "tuesday" -> 1 [] w = "wednesday" -> 2
          [] w = "thursday" -> 3 [] w = "friday" -> 4 [] w = "saturday" -> 5
          [] w = "sunday" -> 6]

\* the days datetime.now() is read on: 2024-12-26 to 2025-01-08
WeekdayClockDays ==
    {ToOrdinal(2024, 12, 26) + i : i \in 0..13}

WeekdayInit ==
    /\ wdCall = [today |-> [kind |-> "datetime", ord |-> ToOrdinal(2024, 12, 26),
                            tod |-> 0],
                 week_type |-> "this", weekday_str |-> "monday"]
    /\ wdRet = [kind |-> "none"]

\* parse_date_query("<week_type> <weekday_str>") with the clock at today
WeekdayQueryCall(today, week_type, weekday_str) ==
    /\ wdRet.kind = "none"
    /\ wdCall' = [today |-> today, week_type |-> week_type,
                  weekday_str |-> weekday_str]
    /\ wdRet' = [kind |-> "done",
                 ret |-> GetDateByWeekday(today, WEEKDAY_MAPPING[weekday_str],
                                          week_type = "last")]
    /\ UNCHANGED wdRest

WeekdayNext ==
    /\ wdRet.kind = "none"
    /\ \E ord \in WeekdayClockDays, t \in DOMAIN TimesOfDay,
          week_type \in {"last", "this"}, weekday_str \in DOMAIN WEEKDAY_MAPPING :
          WeekdayQueryCall([kind |-> "datetime", ord |-> ord, tod |-> TimesOfDay[t]],
                           week_type, weekday_str)

(***************************************************************************)
(* DataService.get_latest_news (services/data_service.py) called again and *)
(* again while the clock moves on                                          *)
(***************************************************************************)
\* the calls made: two parameter combinations
LatestQueries ==
    [op : {"get_latest_news"},
     platforms : {[given |-> FALSE, list |-> <<>>], [given |-> TRUE, list |-> <<"a">>]},
     limit : {50}, include_url : {FALSE}]

\* the seconds that pass between two calls
LatestPause == 450

LatestEnd == 1350

\* the entry of a key in the cache: its value and timestamp, or no entry
StoredEntry(c, ts, key) ==
    IF key \in DOMAIN c THEN [entry |-> TRUE, value |-> c[key], at |-> ts[key]]
    ELSE NoEntry

LatestInit ==
    /\ latestCall = [q |-> [op |-> "none"], at |-> 0, stored |-> NoEntry]
    /\ latestRet = [kind |-> "none"]

\* time passes
LatestWait ==
    /\ now < LatestEnd
    /\ now' = now + LatestPause
    /\ UNCHANGED <<cache, timestamps, cacheRet, written, latestCall, latestRet>>
    /\ UNCHANGED latestRest

\* get_latest_news(platforms, limit, include_url), from cache.get to return;
\* tree is what the output tree holds if it is read
GetLatestNews(q, tree) ==
    LET cache_key == CacheKey(q)
        got == CacheGet(cache, timestamps, now, cache_key, latest_news_ttl)
        computed == Compute(q, tree)
    IN  /\ latestCall' = [q |-> q, at |-> now,
                          stored |-> StoredEntry(cache, timestamps, cache_key)]
        /\ IF Truthy(got.ret)
           THEN /\ latestRet' = [kind |-> "return", value |-> got.ret,
                                 read_tree |-> FALSE]
                /\ cache' = got.cache
                /\ timestamps' = got.timestamps
           ELSE IF computed.kind = "raise"
           THEN /\ latestRet' = [kind |-> "raise", exc |-> computed.exc,
                                 read_tree |-> TRUE]
                /\ cache' = got.cache
                /\ timestamps' = got.timestamps
           ELSE LET put == CacheSet(got.cache, got.timestamps, now, cache_key,
                                    computed.value)
                IN  /\ latestRet' = [kind |-> "return", value |-> computed.value,
                                     read_tree |-> TRUE]
                    /\ cache' = put.cache
                    /\ timestamps' = put.timestamps
        /\ UNCHANGED <<now, cacheRet, written>>
        /\ UNCHANGED latestRest

LatestNext ==
    \/ LatestWait
    \/ \E q \in LatestQueries, tree \in TreeStates : GetLatestNews(q, tree)

(***************************************************************************)
(* CacheService called by several threads: each method is a with-block on  *)
(* the one Lock, and a thread can be switched out between any two          *)
(* statements of the block.                                                *)
(***************************************************************************)
\* the calls a thread makes
CacheOps ==
    [name : {"get", "cleanup_expired"}, key : CacheKeys, ttl : Ttls,
     value : {NoneVal}]
    \cup [name : {"set"}, key : CacheKeys, ttl : {0}, value : CacheValues]
    \cup [name : {"delete"}, key : CacheKeys, ttl : {0}, value : {NoneVal}]
    \cup [name : {"clear", "get_stats"}, key : {""}, ttl : {0}, value : {NoneVal}]

NoOp == [name |-> "", key |-> "", ttl |-> 0, value |-> NoneVal]

\* Lock.acquire succeeds: nobody holds the lock
LockFree_NoLock(holder) == TRUE

LockFree(holder) == holder = 0

\* the keys of a dict as the list a comprehension builds
RECURSIVE KeyList(_)
KeyList(keys) ==
    IF keys = {} THEN <<>>
    ELSE LET k == CHOOSE x \in keys : TRUE IN <<k>> \o KeyList(keys \ {k})

ThreadsInit ==
    /\ lockHolder = 0
    /\ thPc = [t \in Threads |-> "idle"]
    /\ thOp = [t \in Threads |-> NoOp]
    /\ thKeys = [t \in Threads |-> <<>>]
    /\ thStats = [kind |-> "none"]

\* the with-block is left: the lock is released and the method returns
Leave(t) ==
    /\ lockHolder' = 0
    /\ thPc' = [thPc EXCEPT ![t] = "idle"]
    /\ thOp' = [thOp EXCEPT ![t] = NoOp]

\* a thread calls a method and enters its with-block
LockAcquire(t, op) ==
    /\ thPc[t] = "idle"
    /\ LockFree(lockHolder)
    /\ lockHolder' = t
    /\ thPc' = [thPc EXCEPT ![t] = op.name]
    /\ thOp' = [thOp EXCEPT ![t] = op]
    /\ UNCHANGED <<cache, timestamps, now, cacheRet, written, thKeys, thStats>>
    /\ UNCHANGED threadRest

\* get: the test, and for an expired entry  del self._cache[key]
ThreadGet(t) ==
    /\ thPc[t] = "get"
    /\ LET key == thOp[t].key
       IN  IF key \in DOMAIN cache /\ key \in DOMAIN timestamps
              /\ ~(now - timestamps[key] < thOp[t].ttl)
           THEN /\ cache' = Remove(cache, key)
                /\ thPc' = [thPc EXCEPT ![t] = "del_timestamp"]
                /\ UNCHANGED <<lockHolder, thOp>>
           ELSE /\ Leave(t)
                /\ UNCHANGED cache
    /\ UNCHANGED <<timestamps, now, cacheRet, written, thKeys, thStats>>
    /\ UNCHANGED threadRest

\* delete: the test, and  del self._cache[key]
ThreadDelete(t) ==
    /\ thPc[t] = "delete"
    /\ LET key == thOp[t].key
       IN  IF key \in DOMAIN cache
           THEN /\ cache' = Remove(cache, key)
                /\ thPc' = [thPc EXCEPT ![t] = "del_timestamp"]
                /\ UNCHANGED <<lockHolder, thOp>>
           ELSE /\ Leave(t)
                /\ UNCHANGED cache
    /\ UNCHANGED <<timestamps, now, cacheRet, written, thKeys, thStats>>
    /\ UNCHANGED threadRest

\* get and delete:  del self._timestamps[key]  (KeyError if it is gone)
ThreadDelTimestamp(t) ==
    /\ thPc[t] = "del_timestamp"
    /\ timestamps' = Remove(timestamps, thOp[t].key)
    /\ Leave(t)
    /\ UNCHANGED <<cache, now, cacheRet, written, thKeys, thStats>>
    /\ UNCHANGED threadRest

\* set:  self._cache[key] = value
ThreadSetValue(t) ==
    /\ thPc[t] = "set"
    /\ cache' = Put(cache, thOp[t].key, thOp[t].value)
    /\ thPc' = [thPc EXCEPT ![t] = "set_timestamp"]
    /\ UNCHANGED <<timestamps, now, cacheRet, written, lockHolder, thOp, thKeys,
                   thStats>>
    /\ UNCHANGED threadRest

\* set:  self._timestamps[key] = time.time()
ThreadSetTimestamp(t) ==
    /\ thPc[t] = "set_timestamp"
    /\ timestamps' = Put(timestamps, thOp[t].key, now)
    /\ Leave(t)
    /\ UNCHANGED <<cache, now, cacheRet, written, thKeys, thStats>>
    /\ UNCHANGED threadRest

\* clear:  self._cache.clear()
ThreadClearCache(t) ==
    /\ thPc[t] = "clear"
    /\ cache' = EmptyMap
    /\ thPc' = [thPc EXCEPT ![t] = "clear_timestamps"]
    /\ UNCHANGED <<timestamps, now, cacheRet, written, lockHolder, thOp, thKeys,
                   thStats>>
    /\ UNCHANGED threadRest

\* clear:  self._timestamps.clear()
ThreadClearTimestamps(t) ==
    /\ thPc[t] = "clear_timestamps"
    /\ timestamps' = EmptyMap
    /\ Leave(t)
    /\ UNCHANGED <<cache, now, cacheRet, written, thKeys, thStats>>
    /\ UNCHANGED threadRest

\* cleanup_expired: the comprehension that builds expired_keys
ThreadCleanupScan(t) ==
    /\ thPc[t] = "cleanup_expired"
    /\ thKeys' = [thKeys EXCEPT ![t] = KeyList(ExpiredKeys(timestamps, now,
                                                           thOp[t].ttl))]
    /\ thPc' = [thPc EXCEPT ![t] = "cleanup_loop"]
    /\ UNCHANGED <<cache, timestamps, now, cacheRet, written, lockHolder, thOp,
                   thStats>>
    /\ UNCHANGED threadRest

\* cleanup_expired: the loop test, and  del self._cache[key]  (KeyError ends
\* the call if another thread removed the key)
ThreadCleanupDelValue(t) ==
    /\ thPc[t] = "cleanup_loop"
    /\ IF thKeys[t] = <<>> \/ Head(thKeys[t]) \notin DOMAIN cache
       THEN /\ Leave(t)
            /\ thKeys' = [thKeys EXCEPT ![t] = <<>>]
            /\ UNCHANGED cache
       ELSE /\ cache' = Remove(cache, Head(thKeys[t]))
            /\ thPc' = [thPc EXCEPT ![t] = "cleanup_timestamp"]
            /\ UNCHANGED <<lockHolder, thOp, thKeys>>
    /\ UNCHANGED <<timestamps, now, cacheRet, written, thStats>>
    /\ UNCHANGED threadRest

\* cleanup_expired:  del self._timestamps[key]
ThreadCleanupDelTimestamp(t) ==
    /\ thPc[t] = "cleanup_timestamp"
    /\ timestamps' = Remove(timestamps, Head(thKeys[t]))
    /\ thKeys' = [thKeys EXCEPT ![t] = Tail(thKeys[t])]
    /\ thPc' = [thPc EXCEPT ![t] = "cleanup_loop"]
    /\ UNCHANGED <<cache, now, cacheRet, written, lockHolder, thOp, thStats>>
    /\ UNCHANGED threadRest

\* get_stats: the dict it returns, and the keys of the two maps it read
ThreadGetStats(t) ==
    /\ thPc[t] = "get_stats"
    /\ thStats' = [kind |-> "done",
                   stats |-> CacheStats(cache, timestamps, now),
                   keys |-> DOMAIN cache,
                   timestamp_keys |-> DOMAIN timestamps]
    /\ Leave(t)
    /\ UNCHANGED <<cache, timestamps, now, cacheRet, written, thKeys>>
    /\ UNCHANGED threadRest

ThreadsNext ==
    \/ Tick
    \/ \E t \in Threads :
          /\ thPc[t] = "idle"
          /\ \E op \in CacheOps : LockAcquire(t, op)
    \/ \E t \in Threads : ThreadGet(t)
    \/ \E t \in Threads : ThreadDelete(t)
    \/ \E t \in Threads : ThreadDelTimestamp(t)
    \/ \E t \in Threads : ThreadSetValue(t)
    \/ \E t \in Threads : ThreadSetTimestamp(t)
    \/ \E t \in Threads : ThreadClearCache(t)
    \/ \E t \in Threads : ThreadClearTimestamps(t)
    \/ \E t \in Threads : ThreadCleanupScan(t)
    \/ \E t \in Threads : ThreadCleanupDelValue(t)
    \/ \E t \in Threads : ThreadCleanupDelTimestamp(t)
    \/ \E t \in Threads : ThreadGetStats(t)

(***************************************************************************)
(* check_news_sources.py run again and again on the sources.json the       *)
(* earlier runs left behind.                                               *)
(***************************************************************************)
MaxRuns == 2      \* runs of check_news_sources in one behaviour

\* the answers of a feed in these runs: a timeout, a bad status, a body that
\* does not parse, and RSS bodies of at most one item
RunResponses ==
    {r \in Responses :
        IF r.kind = "raise" THEN r.exc = "Timeout"
        ELSE r.content = ParseError
             \/ (r.content.entries = <<>> /\ Len(r.content.items) <= 1)}

RunFetches(sources) ==
    IF sources = DefaultSources
    THEN {[n \in SeqRange(DefaultSources) |-> r] : r \in RunResponses}
    ELSE [SeqRange(sources) -> RunResponses]

NewsRunsInit == runLog = <<>>

\* main of check_news_sources.py, with save_working_sources; the run is also
\* entered in runLog
CheckNewsSourcesRun(fetch) ==
    LET sources == LoadSources(sources_json)
        check_results == NewsResults(sources, fetch)
        working_sources == NamesWhere(check_results, TRUE)
        broken_sources == NamesWhere(check_results, FALSE)
        after == IF sources # <<>> /\ working_sources # <<>>
                 THEN SourcesJson(working_sources)
                 ELSE sources_json
    IN  /\ Len(runLog) < MaxRuns
        /\ newsRun' = IF sources = <<>>
                      THEN [kind |-> "done", sources |-> sources, fetch |-> fetch,
                            checked |-> FALSE]
                      ELSE [kind |-> "done", sources |-> sources, fetch |-> fetch,
                            checked |-> TRUE,
                            results |-> check_results,
                            total |-> Len(sources),
                            working |-> Len(working_sources),
                            broken |-> Len(broken_sources),
                            saved |-> working_sources # <<>>]
        /\ sources_json' = after
        /\ runLog' = Append(runLog,
                            [before |-> sources_json, loaded |-> sources,
                             checked |-> IF sources = <<>> THEN <<>>
                                         ELSE check_results,
                             after |-> after])
        /\ UNCHANGED <<healthRun, health_report>>
        /\ UNCHANGED runsRest

NewsRunsNext ==
    \/ \E file \in SourcesFiles : WriteSourcesFile(file)
    \/ /\ Len(runLog) < MaxRuns
       /\ \E fetch \in RunFetches(LoadSources(sources_json)) :
             CheckNewsSourcesRun(fetch)

(***************************************************************************)
(* SearchTools.search_news_unified (tools/search_tools.py), one pass of    *)
(* its while loop per step.  A string is the sequence of its characters,   *)
(* a float the exact fraction, a similarity_score its ten-thousandths.     *)
(* Dates are day numbers; date_range stands for the pair                   *)
(* validate_date_range parses.  sort_by "weight" is left out.              *)
(***************************************************************************)
MaxSearchDay == 3     \* the days 1..MaxSearchDay have folders; the last is today

UnifiedDays == 1..MaxSearchDay

FracGe(a, b) == a.num * b.den >= b.num * a.den

FracMax(a, b) == IF FracGe(a, b) THEN a ELSE b

\* round(x, 4), in ten-thousandths
Round4(x) ==
    LET q == (10000 * x.num) \div x.den
        r == (10000 * x.num) % x.den
    IN  IF 2 * r > x.den \/ (2 * r = x.den /\ q % 2 = 1) THEN q + 1 ELSE q

\* str.strip on blanks
RECURSIVE StrStrip(_)
StrStrip(s) ==
    IF s = <<>> THEN s
    ELSE IF Head(s) = " " THEN StrStrip(Tail(s))
    ELSE IF s[Len(s)] = " " THEN StrStrip(SubSeq(s, 1, Len(s) - 1))
    ELSE s

\* validate_keyword
ValidateKeyword(keyword) ==
    IF keyword = <<>> THEN InvalidParameterError("Keyword cannot be empty.")
    ELSE IF StrStrip(keyword) = <<>>
    THEN InvalidParameterError("Keyword cannot consist only of whitespace.")
    ELSE IF Len(StrStrip(keyword)) > 100
    THEN InvalidParameterError("Keyword length cannot exceed 100 characters")
    ELSE [kind |-> "return", value |-> StrStrip(keyword)]

\* SequenceMatcher: the length of the run of equal characters from a[i], b[j]
RECURSIVE RunLen(_, _, _, _, _, _)
RunLen(a, b, i, j, ahi, bhi) ==
    IF i <= ahi /\ j <= bhi /\ a[i] = b[j]
    THEN 1 + RunLen(a, b, i + 1, j + 1, ahi, bhi)
    ELSE 0

\* SequenceMatcher.find_longest_match on a[alo..ahi], b[blo..bhi]: the longest
\* block, the earliest in a and then in b (no junk: the texts are short)
FindLongestMatch(a, b, alo, ahi, blo, bhi) ==
    LET size(p) == RunLen(a, b, p[1], p[2], ahi, bhi)
        pairs == (alo..ahi) \X (blo..bhi)
        best == {p \in pairs : \A o \in pairs : size(o) <= size(p)}
        first == CHOOSE p \in best :
                    \A o \in best : p[1] < o[1] \/ (p[1] = o[1] /\ p[2] <= o[2])
    IN  [i |-> first[1], j |-> first[2], size |-> size(first)]

\* SequenceMatcher.get_matching_blocks: the total size of the blocks
RECURSIVE MatchingSize(_, _, _, _, _, _)
MatchingSize(a, b, alo, ahi, blo, bhi) ==
    IF alo > ahi \/ blo > bhi THEN 0
    ELSE LET m == FindLongestMatch(a, b, alo, ahi, blo, bhi)
         IN  IF m.size = 0 THEN 0
             ELSE m.size
                  + MatchingSize(a, b, alo, m.i - 1, blo, m.j - 1)
                  + MatchingSize(a, b, m.i + m.size, ahi, m.j + m.size, bhi)

\* _calculate_similarity: SequenceMatcher(None, a, b).ratio()
CalculateSimilarity(text1, text2) ==
    LET a == StrLower(text1)
        b == StrLower(text2)
    IN  IF Len(a) + Len(b) = 0 THEN Frac(1, 1)
        ELSE Frac(2 * MatchingSize(a, b, 1, Len(a), 1, Len(b)), Len(a) + Len(b))

\* self.stopwords (the entries of two letters that a modelled text can hold)
SearchStopwords == {<<"n", "o">>, <<"o", "n">>, <<"i", "t">>, <<"i", "s">>}

\* re.findall of the word pattern on a text of letters and blanks
RECURSIVE TextWords(_, _)
TextWords(text, word) ==
    IF text = <<>> THEN (IF word = <<>> THEN <<>> ELSE <<word>>)
    ELSE IF Head(text) = " "
    THEN (IF word = <<>> THEN <<>> ELSE <<word>>) \o TextWords(Tail(text), <<>>)
    ELSE TextWords(Tail(text), Append(word, Head(text)))

\* set(_extract_keywords(text)) with min_length 2
TextKeywords(text) ==
    LET words == TextWords(StrLower(text), <<>>)
    IN  {words[i] : i \in {j \in DOMAIN words :
                             Len(words[j]) >= 2 /\ words[j] \notin SearchStopwords}}

\* _fuzzy_match: (is_match, similarity)
FuzzyMatch(query, text, threshold) ==
    LET query_lower == StrLower(query)
        text_lower == StrLower(text)
        seq_similarity == CalculateSimilarity(query_lower, text_lower)
        query_keywords == TextKeywords(query_lower)
        text_keywords == TextKeywords(text_lower)
        common_words == query_keywords \cap text_keywords
        keyword_overlap == Frac(Cardinality(common_words), Cardinality(query_keywords))
        hybrid_score == FracAdd(FracMul(seq_similarity, Frac(2, 5)),
                                FracMul(keyword_overlap, Frac(3, 5)))
    IN  IF StrContains(text_lower, query_lower)
        THEN [is_match |-> TRUE, similarity |-> Frac(1, 1)]
        ELSE IF FracGe(seq_similarity, threshold)
        THEN [is_match |-> TRUE, similarity |-> seq_similarity]
        ELSE IF query_keywords = {} \/ text_keywords = {}
        THEN [is_match |-> FALSE, similarity |-> Frac(0, 1)]
        ELSE IF FracGe(keyword_overlap, Frac(1, 2))
        THEN [is_match |-> TRUE, similarity |-> FracMax(seq_similarity, keyword_overlap)]
        ELSE IF keyword_overlap.num > 0 /\ FracGe(hybrid_score, threshold)
        THEN [is_match |-> TRUE, similarity |-> hybrid_score]
        ELSE [is_match |-> FALSE, similarity |-> seq_similarity]

\* the titles of the one platform file of a day, with their ranks
UnifiedTitles ==
    <<[title |-> <<"a", "i", " ", "b", "a", "n">>, ranks |-> <<2>>],
      [title |-> <<"n", "o", " ", "c", "h", "i", "p">>, ranks |-> <<>>]>>

\* what read_all_titles_for_date finds for a day: DataNotFoundError, or the titles
UnifiedDayData ==
    {NoDayData, [data |-> TRUE, titles |-> <<UnifiedTitles[2], UnifiedTitles[1]>>]}

UnifiedQueries ==
    {<<>>, <<" ", "A", "I">>,
     <<"a", "i", " ", "c", "h", "i", "p", " ", "b", "a", "n">>}

\* threshold arguments: below 0, 0.6, 0.9, above 1
UnifiedThresholds == {Frac(-1, 2), Frac(3, 5), Frac(9, 10), Frac(3, 2)}

\* the date_range argument: None, or the two days of the dict
UnifiedRanges == {NoneVal} \cup [start : UnifiedDays, end : UnifiedDays]

\* the calls: every threshold and sort in fuzzy mode, the defaults in the other
\* modes and for the empty query
UnifiedCalls ==
    {c \in [query : UnifiedQueries,
            search_mode : {"keyword", "fuzzy", "entity", "regex"},
            date_range : UnifiedRanges,
            limit : {IntArg(1), NoneVal},
            sort_by : {"relevance", "date", "rank"},
            threshold : UnifiedThresholds] :
        /\ c.search_mode # "fuzzy"
              => (c.threshold = Frac(3, 5) /\ c.sort_by = "relevance"
                  /\ c.limit = NoneVal)
        /\ c.query = <<>>
              => (c.threshold = Frac(3, 5) /\ c.sort_by = "relevance"
                  /\ c.limit = NoneVal /\ c.search_mode = "fuzzy")
        /\ c.sort_by # "relevance" => c.limit = IntArg(1)}

\* threshold = max(0.0, min(1.0, threshold))
ClampThreshold(threshold) ==
    FracMax(Frac(0, 1), IF FracGe(Frac(1, 1), threshold) THEN threshold ELSE Frac(1, 1))

\* the condition of the while loop
DateLoopCond_Exclusive(current, end) == current < end

DateLoopCond(current, end) == current <= end

\* _search_by_keyword_mode, _search_by_fuzzy_mode, _search_by_entity_mode on the
\* titles of a day
RECURSIVE SearchByMode(_, _, _, _, _)
SearchByMode(search_mode, query, titles, day, threshold) ==
    IF titles = <<>> THEN <<>>
    ELSE LET info == Head(titles)
             fm == FuzzyMatch(query, info.title, threshold)
             hit == IF search_mode = "fuzzy" THEN fm.is_match
                    ELSE StrContains(StrLower(info.title), StrLower(query))
             news_item == [title |-> info.title, date |-> day,
                           similarity_score |-> IF search_mode = "fuzzy"
                                                THEN Round4(fm.similarity)
                                                ELSE 10000,
                           ranks |-> info.ranks, count |-> Len(info.ranks),
                           rank |-> IF info.ranks # <<>> THEN info.ranks[1] ELSE 999]
         IN  (IF hit THEN <<news_item>> ELSE <<>>)
             \o SearchByMode(search_mode, query, Tail(titles), day, threshold)

\* list.sort(key=..., reverse=True): descending, equal keys in their old order
SortDesc(q, field) ==
    LET before(i) == {j \in DOMAIN q :
                        \/ q[j][field] > q[i][field]
                        \/ (q[j][field] = q[i][field] /\ j < i)}
    IN  [p \in DOMAIN q |-> q[CHOOSE i \in DOMAIN q : Cardinality(before(i)) = p - 1]]

Failure(code) == [success |-> FALSE, error |-> [code |-> code]]

\* the validation before the loop: the exception it raises, or the range to search
UnifiedValidate(c, files) ==
    LET limit == ValidateLimit(c.limit, 50, DefaultMaxLimit)
        folders == {d \in UnifiedDays : files[d] # NoDayData}
    IN  IF ValidateKeyword(c.query).kind = "raise" THEN ValidateKeyword(c.query)
        ELSE IF c.search_mode \notin {"keyword", "fuzzy", "entity"}
        THEN InvalidParameterError("Invalid search mode")
        ELSE IF c.sort_by \notin {"relevance", "weight", "date"}
        THEN InvalidParameterError("Invalid sort method")
        ELSE IF limit.kind = "raise" THEN limit
        ELSE IF c.date_range # NoneVal
        THEN IF c.date_range.start > c.date_range.end
             THEN InvalidParameterError("start later than end")
             ELSE [kind |-> "return", start_date |-> c.date_range.start,
                   end_date |-> c.date_range.end]
        ELSE IF folders = {} THEN [kind |-> "no_data"]
        ELSE LET latest == CHOOSE d \in folders : \A o \in folders : o <= d
             IN  [kind |-> "return", start_date |-> latest, end_date |-> latest]

\* what the body of the loop gets for each day from the mode's search function
\* (the files do not change during the call)
DayMatches(c, files, valid) ==
    [d \in UnifiedDays |->
        IF ~valid \/ files[d] = NoDayData THEN <<>>
        ELSE SearchByMode(c.search_mode, ValidateKeyword(c.query).value,
                          files[d].titles, d, ClampThreshold(c.threshold))]

UnifiedInit ==
    /\ uniPc = "idle"
    /\ uniCall = [query |-> <<>>, search_mode |-> "", date_range |-> NoneVal,
                  limit |-> NoneVal, sort_by |-> "", threshold |-> Frac(0, 1),
                  files |-> [d \in UnifiedDays |-> NoDayData],
                  start_date |-> 0, end_date |-> 0,
                  found |-> [d \in UnifiedDays |-> <<>>]]
    /\ uniDate = 0
    /\ all_matches = <<>>
    /\ uniVisited = <<>>
    /\ uniRet = [kind |-> "none"]

\* the call up to the while loop
UnifiedStart(c, files) ==
    LET v == UnifiedValidate(c, files)
    IN  /\ uniPc = "idle"
        /\ uniCall' = c @@ [files |-> files,
                            start_date |-> IF v.kind = "return" THEN v.start_date ELSE 0,
                            end_date |-> IF v.kind = "return" THEN v.end_date ELSE 0,
                            found |-> DayMatches(c, files, v.kind = "return")]
        /\ IF v.kind = "return"
           THEN /\ uniPc' = "loop"
                /\ uniDate' = v.start_date
                /\ UNCHANGED uniRet
           ELSE /\ uniPc' = "done"
                /\ uniRet' = [kind |-> "done", looped |-> FALSE,
                              result |-> Failure(IF v.kind = "no_data"
                                                 THEN "NO_DATA_AVAILABLE" ELSE v.exc)]
                /\ UNCHANGED uniDate
        /\ UNCHANGED <<all_matches, uniVisited>>
        /\ UNCHANGED uniRest

\* one pass of the while loop
UnifiedDay ==
    /\ uniPc = "loop"
    /\ DateLoopCond(uniDate, uniCall.end_date)
    /\ uniVisited' = Append(uniVisited, uniDate)
    /\ all_matches' =
          IF uniCall.files[uniDate] = NoDayData THEN all_matches
          ELSE all_matches \o uniCall.found[uniDate]
    /\ uniDate' = uniDate + 1
    /\ UNCHANGED <<uniPc, uniCall, uniRet>>
    /\ UNCHANGED uniRest

\* after the loop: the sort, the cut to limit, the returned dict
UnifiedResult(c, matches) ==
    LET limit == ValidateLimit(c.limit, 50, DefaultMaxLimit).value
        sorted == IF c.sort_by = "relevance"
                  THEN SortDesc(matches, "similarity_score")
                  ELSE SortDesc(matches, "date")
        found == FirstN(sorted, limit)
    IN  IF matches = <<>>
        THEN [success |-> TRUE, results |-> <<>>, total |-> 0,
              search_mode |-> c.search_mode]
        ELSE [success |-> TRUE, results |-> found,
              summary |->
                 [total_found |-> Len(matches),
                  returned_count |-> Len(found),
                  requested_limit |-> limit,
                  search_mode |-> c.search_mode,
                  sort_by |-> c.sort_by]
                 @@ (IF c.search_mode = "fuzzy"
                     THEN [threshold |-> ClampThreshold(c.threshold)]
                     ELSE EmptyMap)]

\* the loop is left and the dict returned
UnifiedFinish ==
    /\ uniPc = "loop"
    /\ ~DateLoopCond(uniDate, uniCall.end_date)
    /\ uniPc' = "done"
    /\ uniRet' = [kind |-> "done", looped |-> TRUE,
                  result |-> UnifiedResult(uniCall, all_matches)]
    /\ UNCHANGED <<uniCall, uniDate, all_matches, uniVisited>>
    /\ UNCHANGED uniRest

UnifiedNext ==
    \/ /\ uniPc = "idle"
       /\ \E c \in UnifiedCalls, files \in [UnifiedDays -> UnifiedDayData] :
             UnifiedStart(c, files)
    \/ UnifiedDay
    \/ UnifiedFinish

Init ==
    /\ CacheInit
    /\ ToolInit
    /\ CrawlInit
    /\ DsInit
    /\ GcInit
    /\ SrvInit
    /\ DateInit
    /\ WeightInit
    /\ LifecycleInit
    /\ LimitInit
    /\ CoInit
    /\ TrendInit
    /\ ViralInit
    /\ HealthInit
    /\ CategorizeInit
    /\ TrendingInit
    /\ SearchInit
    /\ DocLimitInit
    /\ WeekdayInit
    /\ LatestInit
    /\ ThreadsInit
    /\ NewsRunsInit
    /\ UnifiedInit

SpecCache == Init /\ [][CacheNext]_vars

SpecTools == Init /\ [][ToolNext]_vars

SpecCrawl == Init /\ [][CrawlNext]_vars

SpecKeys == Init /\ [][DsNext]_vars

SpecSingleton == Init /\ [][GcNext]_vars

SpecServer == Init /\ [][SrvNext]_vars

SpecDateRange == Init /\ [][DateRangeNext]_vars

SpecDateQuery == Init /\ [][DateQueryNext]_vars

SpecWeight == Init /\ [][WeightNext]_vars

SpecLifecycle == Init /\ [][LifecycleNext]_vars

SpecLimit == Init /\ [][LimitNext]_vars

SpecCooccurrence == Init /\ [][CoNext]_vars

SpecTrend == Init /\ [][TrendNext]_vars

SpecViral == Init /\ [][ViralNext]_vars

SpecNewsSources == Init /\ [][NewsSourcesNext]_vars
SpecSourcesHealth == Init /\ [][SourcesHealthNext]_vars

SpecCategorize == Init /\ [][CategorizeNext]_vars

SpecTrending == Init /\ [][TrendingNext]_vars

SpecSearch == Init /\ [][SearchNext]_vars

SpecDocLimit == Init /\ [][DocLimitNext]_vars

SpecWeekday == Init /\ [][WeekdayNext]_vars

SpecLatest == Init /\ [][LatestNext]_vars

SpecCacheThreads == Init /\ [][ThreadsNext]_vars

SpecNewsRuns == Init /\ [][NewsRunsNext]_vars

SpecUnified == Init /\ [][UnifiedNext]_vars

\* The keys set and not removed since, by the history of operations
Live == {k \in CacheKeys : written[k] # NoEntry}

(* C1: a get of a key that was set at time t and not removed since returns  *)
(* the value exactly when now - t < ttl; at now - t >= ttl it returns None  *)
(* and removes the key, which get_stats then no longer counts, and every    *)
(* later get of it returns None until the key is set again.                 *)
C1_TtlContract ==
    /\ DOMAIN cache = Live
    /\ DOMAIN timestamps = Live
    /\ \A k \in Live : cache[k] = written[k].v /\ timestamps[k] = written[k].t
    /\ cacheRet.op = "get" =>
         LET w == cacheRet.was
             k == cacheRet.key
         IN  /\ (w # NoEntry /\ cacheRet.at - w.t < cacheRet.ttl) =>
                    /\ cacheRet.ret = w.v
                    /\ k \in DOMAIN cache
             /\ (w # NoEntry /\ cacheRet.at - w.t >= cacheRet.ttl) =>
                    /\ cacheRet.ret = NoneVal
                    /\ k \notin DOMAIN cache
                    /\ CacheStats(cache, timestamps, now).total_entries
                         = Cardinality(Live \ {k})
             /\ w = NoEntry => cacheRet.ret = NoneVal /\ k \notin DOMAIN cache
    /\ cacheRet.op = "get_stats" => cacheRet.ret.total_entries = Cardinality(Live)

\* an entry set earlier has expired, the get returned None and evicted it
C1_Witness ==
    /\ cacheRet.op = "get"
    /\ cacheRet.was # NoEntry
    /\ cacheRet.at - cacheRet.was.t >= cacheRet.ttl
    /\ cacheRet.ret = NoneVal
    /\ cacheRet.key \notin DOMAIN cache
    /\ Live # {}

(* C2: every facade method returns a result structure and never raises: a    *)
(* domain error raised inside gives success false with the error's code,      *)
(* message and optional suggestion; any other exception gives success false   *)
(* with code INTERNAL_ERROR and a message.                                    *)
C2_NeverRaises ==
    toolOutcome.outcome # "none" =>
        /\ toolOutcome.outcome = "returned"
        /\ toolCall.exc = NoException => toolOutcome.result.success
        /\ toolCall.exc # NoException =>
              LET e == toolCall.exc
                  err == toolOutcome.result.error
              IN  /\ ~toolOutcome.result.success
                  /\ {"code", "message"} \subseteq DOMAIN err
                  /\ e.cls \in MCPErrorClasses =>
                        /\ err.code = e.cls
                        /\ ("suggestion" \in DOMAIN err) = e.suggestion
                  /\ e.cls \notin MCPErrorClasses => err.code = "INTERNAL_ERROR"

\* an exception that is no domain error was raised in a body and came back
\* as the INTERNAL_ERROR envelope
C2_Witness ==
    /\ toolCall.exc # NoException
    /\ toolCall.exc.cls = "KeyError"
    /\ toolOutcome.outcome = "returned"
    /\ toolOutcome.result.error.code = "INTERNAL_ERROR"

SeqToSet(q) == {q[i] : i \in DOMAIN q}

\* the platforms whose while loop has been left
CrawlFinished ==
    {ids[i] : i \in {j \in DOMAIN ids :
                       j < crawl_i \/ (j = crawl_i /\ ~RetryLoopCond(retries, success))}}

(* C3: a targeted platform is requested at most 3 times and never again      *)
(* after its first successful attempt; a platform whose 3 attempts all fail   *)
(* is appended to failed_platforms and the loop goes on, so the operation     *)
(* returns success true with the data of the other platforms.                 *)
C3_RetryLoop ==
    /\ \A p \in PlatformIds :
          /\ Len(requests[p]) <= 3
          /\ \A i \in DOMAIN requests[p] : requests[p][i] => i = Len(requests[p])
          /\ (Len(requests[p]) = 3 /\ ~requests[p][3]) <=> p \in SeqToSet(failed_ids)
    /\ \A p \in CrawlFinished :
          Len(requests[p]) >= 1 /\ (requests[p][Len(requests[p])] \/ Len(requests[p]) = 3)
    /\ (crawlPc = "done" /\ ids # <<>>) =>
          /\ crawlResponse.success
          /\ CrawlFinished = SeqToSet(ids)
          /\ crawlResponse.failed_platforms = failed_ids
          /\ \A p \in SeqToSet(ids) :
                requests[p][Len(requests[p])] =>
                    /\ p \in crawlResponse.platforms
                    /\ \A t \in DOMAIN results[p] : <<p, t>> \in crawlResponse.data

\* one platform failed three times, a later one succeeded with a title, and
\* the operation returned success with that title
C3_Witness ==
    /\ crawlPc = "done"
    /\ Len(ids) = 2
    /\ failed_ids = <<ids[1]>>
    /\ Len(requests[ids[1]]) = 3
    /\ crawlResponse.success
    /\ <<ids[2], "t1">> \in crawlResponse.data

\* two queries have the same parameter combination (None and [] both ask for
\* all platforms)
SameParams(q1, q2) ==
    /\ q1.op = q2.op
    /\ CASE q1.op \in {"get_latest_news", "get_news_by_date"} ->
             /\ OrEmpty(q1.platforms) = OrEmpty(q2.platforms)
             /\ [q1 EXCEPT !.platforms = 0] = [q2 EXCEPT !.platforms = 0]
         [] OTHER -> q1 = q2

(* C4: two cached queries whose parameter combinations differ have different *)
(* cache keys, and a query is never served the result cached for another.    *)
C4_KeysNeverCollide ==
    /\ \A i, j \in DOMAIN dsKeys :
          ~SameParams(dsQueries[i], dsQueries[j]) => dsKeys[i] # dsKeys[j]
    /\ dsServed.kind = "return" => SameParams(dsServed.value.for, dsQueries[dsCall])

(* C5: every call of get_cache returns the same instance, also when the     *)
(* first calls are made by several threads at once, so every DataService     *)
(* reads and writes one cache.                                               *)
C5_OneCacheInstance == Cardinality(gcReturned) <= 1

(* C6: over any sequence of run_server and tool invocations, Settings.load   *)
(* is not run again once it has returned, the log sink is configured once    *)
(* and keeps its level, each facade is constructed once, and every call of   *)
(* _get_tools returns the same five objects, whatever project_root it gets.  *)
C6_InitOnce ==
    /\ srvHist.loads <= 1
    /\ ~srvHist.loadAfterOk
    /\ srvHist.sinkConfigs <= 1
    /\ sinkLevel = srvHist.firstLevel
    /\ \A f \in FacadeNames : srvHist.built[f] <= 1
    /\ srvReturn.kind = "registry" =>
          /\ DOMAIN srvReturn.value = FacadeNames
          /\ srvReturn.value = srvHist.first

\* the ordinal of a well-formed date string
StrOrd(date_str) == ToOrdinal(date_str.y, date_str.m, date_str.d)

WellFormed(date_str) ==
    /\ date_str.str = "ymd"
    /\ ValidDate(date_str.y, date_str.m, date_str.d)

Midnight(ord) == [kind |-> "datetime", ord |-> ord, tod |-> 0]

(* C7: on two well-formed YYYY-MM-DD strings validate_date_range returns     *)
(* (start, end) exactly when start <= end and neither is after today; start  *)
(* later than end is rejected, a range ending tomorrow is rejected with a    *)
(* suggestion naming the available data range, start == end is accepted.     *)
C7_DateRange ==
    (/\ rangeRet.kind = "done"
     /\ rangeCall.arg = "dict"
     /\ WellFormed(rangeCall.start)
     /\ WellFormed(rangeCall.end))
    => LET start == StrOrd(rangeCall.start)
           end == StrOrd(rangeCall.end)
           today == rangeRet.today
           ret == rangeRet.ret
       IN  /\ ret.kind = "return" <=> (start <= end /\ start <= today /\ end <= today)
           /\ ret.kind = "return" => ret.value = <<Midnight(start), Midnight(end)>>
           /\ ret.kind # "return" =>
                ret.kind = "raise" /\ ret.exc = "InvalidParameterError"
           /\ start > end => ret.why = "Start date cannot be later than end date"
           /\ (start <= end /\ end = today + 1) =>
                /\ ret.why = "Querying future dates is not allowed"
                /\ ret.suggestion.about = "Currently available data range"
                /\ ret.suggestion.range \in AvailableRanges
           /\ (start = end /\ end <= today) => ret.kind = "return"

\* a one-day range of today itself is accepted
C7_Witness ==
    /\ rangeRet.kind = "done"
    /\ rangeCall.arg = "dict"
    /\ WellFormed(rangeCall.start)
    /\ rangeCall.start = rangeCall.end
    /\ StrOrd(rangeCall.end) = rangeRet.today
    /\ rangeRet.ret.kind = "return"

(* C8: with default arguments validate_date_query never returns a date after *)
(* today nor one more than 365 days before today, for every input form; an   *)
(* input resolving outside that window is rejected, and every rejection is   *)
(* an InvalidParameterError.                                                 *)
C8_DateQueryWindow ==
    (/\ dqRet.kind = "done"
     /\ ~dqCall.allow_future
     /\ dqCall.max_days_ago = 365)
    => LET today == dqRet.today
           ret == dqRet.ret
       IN  /\ ret.kind = "return" =>
                /\ ret.value.ord <= today
                /\ today - ret.value.ord <= 365
           /\ ret.kind # "return" =>
                ret.kind = "raise" /\ ret.exc = "InvalidParameterError"
           /\ (/\ dqParsed.kind = "datetime"
               /\ (dqParsed.ord > today \/ today - dqParsed.ord > 365))
              => ret.kind = "raise"

\* an ISO date exactly 365 days before today is returned
C8_Witness ==
    /\ dqRet.kind = "done"
    /\ ~dqCall.allow_future
    /\ dqCall.max_days_ago = 365
    /\ dqCall.q.form = "iso"
    /\ dqRet.ret.kind = "return"
    /\ dqRet.today - dqRet.ret.value.ord = 365

(* C9: every value parse_date_query returns has midnight as its time of day, *)
(* for all input forms, whatever the time of day of the call.                *)
C9_FlooredToMidnight == dqParsed.kind = "datetime" => dqParsed.tod = 0

\* the ranks of the record a call was made on, and its count
CalledRanks ==
    IF "ranks" \in DOMAIN weightCall.news_data THEN weightCall.news_data.ranks ELSE <<>>

CalledCount ==
    IF "count" \in DOMAIN weightCall.news_data THEN weightCall.news_data.count
    ELSE Len(CalledRanks)

\* the sum over the ranks of 11 - min(r, 10), rank by rank
RECURSIVE ScoreSum(_)
ScoreSum(i) ==
    IF i = 0 THEN 0
    ELSE ScoreSum(i - 1) + (IF CalledRanks[i] >= 10 THEN 1 ELSE 11 - CalledRanks[i])

(* C10: calculate_news_weight returns 0 for a record with no ranks, whatever *)
(* its count, and otherwise 0.6 * mean(11 - min(r, 10)) + 0.3 * min(count,   *)
(* 10) * 10 + 0.1 * 100 * #(r <= 5) / #ranks; 24.4 for ranks [1,2,3] with    *)
(* count 3.  With n ranks: weight * 10n = 6 * sum + 30 * min(count,10) * n   *)
(* + 100 * #(r <= 5).                                                        *)
C10_WeightFormula ==
    (weightRet.kind = "done" /\ weightCall.rank_threshold = 5)
    => LET n == Len(CalledRanks)
           w == weightRet.value
           high == Cardinality({i \in 1..n : CalledRanks[i] <= 5})
           freq == IF CalledCount > 10 THEN 100 ELSE CalledCount * 10
       IN  /\ w.den > 0
           /\ n = 0 => w.num = 0
           /\ n > 0 => w.num * (10 * n) = w.den * (6 * ScoreSum(n) + 3 * freq * n + 100 * high)
           /\ (CalledRanks = <<1, 2, 3>> /\ CalledCount = 3) => w.num * 10 = 244 * w.den

\* the spec's example: ranks [1,2,3] with count 3
C10_Witness ==
    /\ weightRet.kind = "done"
    /\ weightCall.rank_threshold = 5
    /\ weightCall.news_data = [ranks |-> <<1, 2, 3>>, count |-> 3]
    /\ weightRet.value.num * 10 = 244 * weightRet.value.den

(* C11: in analyze_topic_lifecycle a topic present on only 1 day of a 7-day  *)
(* window, a single spike on that day, gets topic_type "Flash in the pan".   *)
C11_FlashInThePan ==
    (/\ lifeRet.kind = "done"
     /\ Len(lifeCall) = 7
     /\ Cardinality({i \in DOMAIN lifeCall :
                       lifeCall[i].data /\ lifeCall[i].count > 0}) = 1)
    => /\ lifeRet.result.success
       /\ lifeRet.result.analysis.topic_type = "Flash in the pan"

(* C20: validate_limit(limit, default, max_limit) returns default when limit *)
(* is absent, limit itself when 1 <= limit <= max_limit, and rejects with    *)
(* InvalidParameterError every limit <= 0 and every limit > max_limit:       *)
(* (None, 20) gives 20, 0 is rejected, 5000 with max 1000 is rejected, 500   *)
(* with max 1000 gives 500.                                                  *)
C20_ValidateLimit ==
    limitRet.kind = "done"
    => LET limit == limitCall.limit
           max == limitCall.max_limit
           ret == limitRet.ret
           Rejected == ret.kind = "raise" /\ ret.exc = "InvalidParameterError"
           Returns(v) == ret = [kind |-> "return", value |-> v]
       IN  /\ limit = NoneVal => Returns(limitCall.default)
           /\ \A n \in LimitInts :
                limit = [int |-> n] =>
                    /\ (1 <= n /\ n <= max) => Returns(n)
                    /\ (n <= 0 \/ n > max) => Rejected
           /\ (limit = NoneVal /\ limitCall.default = 20) => Returns(20)
           /\ limit = [int |-> 0] => Rejected
           /\ (limit = [int |-> 5000] /\ max = 1000) => Rejected
           /\ (limit = [int |-> 500] /\ max = 1000) => Returns(500)

\* the spec's example: 500 with max 1000 gives 500
C20_Witness ==
    /\ limitRet.kind = "done"
    /\ limitCall = [limit |-> [int |-> 500], default |-> 20, max_limit |-> 1000]
    /\ limitRet.ret = [kind |-> "return", value |-> 500]

\* the number of titles of the call in which both keywords occur
TitlesWithBoth(kw1, kw2) ==
    Cardinality({i \in DOMAIN coCall.titles :
                   /\ \E k \in DOMAIN coCall.titles[i] : coCall.titles[i][k] = kw1
                   /\ \E k \in DOMAIN coCall.titles[i] : coCall.titles[i][k] = kw2})

PairReported(kw1, kw2) ==
    \E i \in DOMAIN coRet.result.cooccurrence_pairs :
        LET p == coRet.result.cooccurrence_pairs[i]
        IN  {p.keyword1, p.keyword2} = {kw1, kw2}

(* C12: analyze_keyword_cooccurrence reports a pair of keywords exactly when *)
(* the number of titles in which both occur is >= min_frequency, whatever    *)
(* else the titles contain, a keyword repeated inside one title included     *)
(* (checked with the default top_n of 20, which cuts nothing here).          *)
C12_PairThreshold ==
    (/\ coRet.kind = "done"
     /\ coRet.result.success
     /\ coCall.top_n = NoneVal)
    => PairReported("ai", "chip")
         <=> TitlesWithBoth("ai", "chip") >= coRet.result.min_frequency

\* the count of a keyword in the data of a day of the call (0 without data)
DayCount(d, keyword) ==
    IF trendCall.days[d].data THEN trendCall.days[d].counts[keyword] ELSE 0

(* C13: in predict_trending_topics the growth rate of every keyword is       *)
(* computed from today's count versus yesterday's count, and the             *)
(* current_count of a predicted topic is the keyword's count in today's      *)
(* data.                                                                     *)
C13_TodayVersusYesterday ==
    (trendRet.kind = "done" /\ trendRet.result.success)
    => \A i \in DOMAIN trendRet.result.predicted_topics :
          LET p == trendRet.result.predicted_topics[i]
              today == DayCount(4, p.keyword)
              yesterday == DayCount(3, p.keyword)
          IN  /\ p.current_count = today
              /\ IF yesterday = 0 THEN p.growth_rate = 10000
                 ELSE p.growth_rate * yesterday = 10000 * (today - yesterday)

\* yesterday's count of a keyword in the data of the call
PreviousCount(keyword) ==
    IF viralCall.previous.data THEN viralCall.previous.counts[keyword] ELSE 0

\* the entries of the result for a keyword
ViralEntries(keyword) ==
    {i \in DOMAIN viralRet.result.viral_topics :
        viralRet.result.viral_topics[i].keyword = keyword}

(* C14: detect_viral_topics flags a keyword exactly when (previous-day count *)
(* = 0 and current count >= 5) or (previous-day count > 0 and current /      *)
(* previous >= threshold); with previous count 0 it is reported with         *)
(* growth_rate "New Topic" at current count 5 and not reported at 4.         *)
C14_ViralFlag ==
    (viralRet.kind = "done" /\ viralRet.result.success)
    => \A keyword \in KeywordSet :
          LET cur == viralCall.current.counts[keyword]
              prev == PreviousCount(keyword)
              t == viralCall.threshold
              entries == ViralEntries(keyword)
          IN  /\ entries # {}
                   <=> \/ prev = 0 /\ cur >= 5
                       \/ prev > 0 /\ cur * t.den >= t.num * prev
              /\ Cardinality(entries) <= 1
              /\ \A i \in entries :
                    LET e == viralRet.result.viral_topics[i]
                    IN  /\ e.current_count = cur
                        /\ e.previous_count = prev
                        /\ (e.growth_rate = [text |-> "New Topic"]) <=> prev = 0
              /\ (prev = 0 /\ cur = 4) => entries = {}
              /\ (prev = 0 /\ cur = 5) => entries # {}

\* a keyword absent yesterday with 5 occurrences today is reported as new
C14_Witness ==
    /\ viralRet.kind = "done"
    /\ viralRet.result.success
    /\ viralCall.current.counts["ai"] = 5
    /\ PreviousCount("ai") = 0
    /\ \E i \in ViralEntries("ai") :
          viralRet.result.viral_topics[i].growth_rate = [text |-> "New Topic"]

\* an RSS item with a title that has text, and a link
WellFormedItem(item) ==
    /\ item \in RssItems
    /\ item.title # NoneVal
    /\ item.title.text # ""
    /\ item.link # NoneVal

\* a feed that answers 200 with well-formed RSS items
WellFormedRss(response) ==
    /\ response.kind = "response"
    /\ response.status_code = 200
    /\ response.content # ParseError
    /\ response.content.items # <<>>
    /\ \A i \in DOMAIN response.content.items :
          WellFormedItem(response.content.items[i])

(* C15: check_news_sources, given one feed returning HTTP 200 with           *)
(* well-formed RSS <item> entries each having a title and a link and one     *)
(* feed returning HTTP 404, reports 1 working and 1 broken source and        *)
(* rewrites sources.json with only the healthy source.                       *)
C15_OneWorkingOneBroken ==
    (/\ newsRun.kind = "done"
     /\ newsRun.sources = <<"Feed A", "Feed B">>
     /\ WellFormedRss(newsRun.fetch["Feed A"])
     /\ newsRun.fetch["Feed B"].kind = "response"
     /\ newsRun.fetch["Feed B"].status_code = 404)
    => /\ newsRun.working = 1
       /\ newsRun.broken = 1
       /\ sources_json = SourcesJson(<<"Feed A">>)

(* C16: check_sources_health ends with exit status 0 exactly when every      *)
(* source in the loaded list was reported healthy, and with exit status 1    *)
(* otherwise, for every source list.                                         *)
C16_ExitStatus ==
    (healthRun.kind = "done" /\ healthRun.loaded)
    => LET all_healthy ==
               \A i \in DOMAIN healthRun.sources :
                  CheckRssSource(healthRun.fetch[healthRun.sources[i]]).healthy
       IN  healthRun.exit_status = IF all_healthy THEN 0 ELSE 1

\* some keyword of the i-th category occurs in the title, whatever the case
CategoryMatches(i, title) ==
    \E k \in DOMAIN TECH_KEYWORDS[i].keywords :
        LET keyword == TECH_KEYWORDS[i].keywords[k]
        IN  \E offset \in 0..(Len(title) - Len(keyword)) :
               \A j \in DOMAIN keyword :
                  LowerChar(keyword[j]) = LowerChar(title[offset + j])

\* the first category that matches, or the catch-all
ExpectedCategory(title) ==
    IF \E i \in DOMAIN TECH_KEYWORDS : CategoryMatches(i, title)
    THEN TECH_KEYWORDS[CHOOSE i \in DOMAIN TECH_KEYWORDS :
                           /\ CategoryMatches(i, title)
                           /\ \A h \in 1..(i - 1) : ~CategoryMatches(h, title)].category
    ELSE "General Tech News"

\* the items of the call that belong to a category, in their order
ItemsOf(category) ==
    LET Belongs(item) == ExpectedCategory(item.title) = category
    IN  SelectSeq(catCall, Belongs)

\* the number of items in the lists of some categories of the result
RECURSIVE TotalLen(_)
TotalLen(categories) ==
    IF categories = {} THEN 0
    ELSE LET category == CHOOSE c \in categories : TRUE
         IN  Len(catRet.result[category]) + TotalLen(categories \ {category})

(* C17: categorize_news places every input item in exactly one category     *)
(* (the category lists partition the input): the first category, in the     *)
(* fixed order of TECH_KEYWORDS, that has a keyword occurring               *)
(* case-insensitively as a substring of the title, or "General Tech News"   *)
(* when no category matches.                                                *)
C17_Partition ==
    catRet.kind = "done"
    => /\ \A category \in DOMAIN catRet.result :
             /\ catRet.result[category] # <<>>
             /\ catRet.result[category] = ItemsOf(category)
       /\ \A i \in DOMAIN catCall :
             ExpectedCategory(catCall[i].title) \in DOMAIN catRet.result
       /\ TotalLen(DOMAIN catRet.result) = Len(catCall)

\* a title with keywords of two categories lands in the first of them, next to
\* a title without any keyword
C17_Witness ==
    /\ catRet.kind = "done"
    /\ \E i \in DOMAIN catCall :
          /\ CategoryMatches(1, catCall[i].title)
          /\ CategoryMatches(2, catCall[i].title)
          /\ catRet.result["AI & Machine Learning"] = <<catCall[i]>>
    /\ "General Tech News" \in DOMAIN catRet.result
    /\ Len(catCall) = MaxNews

\* the cache keys of the trending topics of a mode
KeysOfMode(mode) ==
    {CacheKey([op |-> "get_trending_topics", top_n |-> n, mode |-> mode]) :
        n \in {5, 10}}

DaysSearched ==
    IF searchCall.date_range = NoneVal THEN {SearchToday}
    ELSE searchCall.date_range.start_date..searchCall.date_range.end_date

\* the keyword of the call occurs in a title, whatever the case
KeywordIn(title) ==
    \E offset \in 0..(Len(title) - Len(searchCall.keyword)) :
       \A j \in DOMAIN searchCall.keyword :
          LowerChar(searchCall.keyword[j]) = LowerChar(title[offset + j])

\* the matching titles of the range: day, platform and position in the file
SearchMatches ==
    {<<d, p, i>> \in DaysSearched \X SeqRange(PlatformsRead(searchCall.platforms))
                       \X (1..Len(SearchTitles)) :
        /\ searchCall.files[d].data
        /\ i \in DOMAIN searchCall.files[d].all_titles[p]
        /\ KeywordIn(searchCall.files[d].all_titles[p][i].title)}

\* the sum of the counts of a platform_distribution
RECURSIVE DistributionSum(_, _)
DistributionSum(distribution, platform_ids) ==
    IF platform_ids = {} THEN 0
    ELSE LET p == CHOOSE x \in platform_ids : TRUE
         IN  distribution[p] + DistributionSum(distribution, platform_ids \ {p})

(* C19: DataService.search_news_by_keyword raises DataNotFoundError when no  *)
(* title in the date range matches; otherwise total_found equals the number  *)
(* of matches over all days of the range before truncation, total equals     *)
(* min(limit, total_found) when a positive limit is given (else              *)
(* total_found), and the platform_distribution counts sum to total_found.    *)
C19_SearchTotals ==
    searchRet.kind = "done"
    => IF SearchMatches = {}
       THEN searchRet.ret = [kind |-> "raise", exc |-> "DataNotFoundError"]
       ELSE /\ searchRet.ret.kind = "return"
            /\ LET value == searchRet.ret.value
                   limit == searchCall.limit
                   distribution == value.statistics.platform_distribution
               IN  /\ value.total_found = Cardinality(SearchMatches)
                   /\ value.total = Len(value.results)
                   /\ value.total =
                          IF limit # NoneVal /\ limit.int > 0
                          THEN Min(limit.int, value.total_found)
                          ELSE value.total_found
                   /\ DistributionSum(distribution, DOMAIN distribution)
                          = value.total_found

\* three matches over two days and two platforms, cut to a limit of 1
C19_Witness ==
    /\ searchRet.kind = "done"
    /\ searchRet.ret.kind = "return"
    /\ searchCall.limit = IntArg(1)
    /\ searchRet.ret.value.total = 1
    /\ searchRet.ret.value.total_found = 3
    /\ DOMAIN searchRet.ret.value.statistics.platform_distribution = {"p1", "p2"}

(* C21: the tools documented with "limit ... max 100" (analyze_sentiment,    *)
(* find_similar_news, search_related_news_history) reject every limit       *)
(* greater than 100 with an InvalidParameterError failure envelope and      *)
(* never return more than 100 items.                                        *)
C21_Max100 ==
    docRet.kind = "done"
    => /\ (IsInt(docCall.limit) /\ docCall.limit.int > 100)
             => /\ docRet.result.success = FALSE
                /\ docRet.result.error.code = "InvalidParameterError"
       /\ docRet.result.success => docRet.result.returned_count <= 100

(* C22: for every combination of today's weekday and target weekday, the     *)
(* date resolved for "(last|this) <weekday>" falls on the requested weekday  *)
(* and is never after today: "this <weekday>" resolves to a date 0 to 6      *)
(* days before today, and "last <weekday>" to a date 1 to 13 days before     *)
(* today that lies in the Monday-based week preceding the current one.       *)
C22_WeekdayWindow ==
    wdRet.kind = "done"
    => LET today == wdCall.today.ord
           resolved == wdRet.ret.ord
           monday == today - Weekday(wdCall.today)
       IN  /\ (resolved + 6) % 7 = WEEKDAY_MAPPING[wdCall.weekday_str]
           /\ resolved <= today
           /\ wdCall.week_type = "this" => today - resolved \in 0..6
           /\ wdCall.week_type = "last"
                 => /\ today - resolved \in 1..13
                    /\ resolved \in (monday - 7)..(monday - 1)

\* on a Tuesday, "this friday" is the Friday four days back and "last monday"
\* the Monday eight days back
C22_Witness ==
    /\ wdRet.kind = "done"
    /\ Weekday(wdCall.today) = 1
    /\ \/ /\ wdCall.week_type = "this"
          /\ wdCall.weekday_str = "friday"
          /\ wdCall.today.ord - wdRet.ret.ord = 4
       \/ /\ wdCall.week_type = "last"
          /\ wdCall.weekday_str = "monday"
          /\ wdCall.today.ord - wdRet.ret.ord = 8

(* C23: after get_latest_news has computed and stored a result for a given   *)
(* (platforms, limit, include_url), every identical call made less than 900  *)
(* seconds later returns that stored result without reading the output tree  *)
(* again, for every possible result value including an empty list.           *)
C23_ServedWithin900 ==
    (/\ latestRet.kind # "none"
     /\ latestCall.stored.entry
     /\ latestCall.stored.value.for = latestCall.q
     /\ latestCall.at - latestCall.stored.at < 900)
    => /\ latestRet.kind = "return"
       /\ latestRet.value = latestCall.stored.value
       /\ ~latestRet.read_tree

(* C26: after any sequence and any thread interleaving of CacheService get,  *)
(* set, delete, clear and cleanup_expired calls, the value map and the       *)
(* timestamp map hold exactly the same set of keys, and                      *)
(* get_stats().total_entries equals that common size.                        *)
C26_SameKeys ==
    /\ (\A t \in Threads : thPc[t] = "idle") => DOMAIN cache = DOMAIN timestamps
    /\ thStats.kind = "done"
          => /\ thStats.keys = thStats.timestamp_keys
             /\ thStats.stats.total_entries = Cardinality(thStats.timestamp_keys)

\* get_stats has counted two entries, and a thread waits for the lock a
\* cleanup holds between its two deletions
C26_Witness ==
    /\ thStats.kind = "done"
    /\ thStats.stats.total_entries = 2
    /\ \E t \in Threads : thPc[t] = "cleanup_timestamp"
    /\ DOMAIN cache # DOMAIN timestamps

(* C28: whenever _get_tools returns, the registry it returns contains all    *)
(* five facades, also in calls made after an earlier call in which one       *)
(* facade's constructor raised part-way through construction.                *)
C28_AllFiveFacades ==
    srvReturn.kind = "registry" => DOMAIN srvReturn.value = FacadeNames

(* C29: in the health_report.json written by check_sources_health,           *)
(* healthy_sources + failed_sources equals total_sources, and                *)
(* failed_sources equals the number of sources the run counted as failed     *)
(* (the count that decides the exit status), for every mix of healthy, error *)
(* and empty-feed (warning) results.                                         *)
C29_ReportCounts ==
    (health_report.kind = "json" /\ healthRun.kind = "done") =>
        /\ health_report.healthy_sources + health_report.failed_sources
              = health_report.total_sources
        /\ health_report.failed_sources = CountWhere(healthRun.results, FALSE)

\* the sources a sources.json stores
Stored(file) == IF file.kind = "json" THEN SeqRange(file.sources) ELSE {}

\* the sources a run found broken, and whether it found a healthy one
FailedIn(run) == SeqRange(NamesWhere(run.checked, FALSE))

AnyHealthy(run) == NamesWhere(run.checked, TRUE) # <<>>

(* C30: across any sequence of runs of check_news_sources with sources.json  *)
(* present, the source set stored in sources.json after a run is a subset of *)
(* the set loaded at the start of that run: a source that fails in one run   *)
(* is absent from the file in all later runs and is never checked again, and *)
(* a run in which no source is healthy leaves the file unchanged.            *)
C30_FailedNeverAgain ==
    \A i \in DOMAIN runLog :
        runLog[i].before.kind = "json" =>
            /\ Stored(runLog[i].after) \subseteq SeqRange(runLog[i].loaded)
            /\ \A j \in DOMAIN runLog :
                  j > i => /\ FailedIn(runLog[i]) \cap Stored(runLog[j].before) = {}
                           /\ FailedIn(runLog[i]) \cap Stored(runLog[j].after) = {}
                           /\ FailedIn(runLog[i]) \cap SeqRange(runLog[j].loaded) = {}
            /\ ~AnyHealthy(runLog[i]) => runLog[i].after = runLog[i].before

(* C30, amended: ... a source that fails in a run in which some other source *)
(* is healthy is absent from the file in all later runs and is never checked *)
(* again; a run in which no source is healthy leaves the file, failed        *)
(* sources included, unchanged.                                              *)
C30_FileShrinks ==
    \A i \in DOMAIN runLog :
        runLog[i].before.kind = "json" =>
            /\ Stored(runLog[i].after) \subseteq SeqRange(runLog[i].loaded)
            /\ AnyHealthy(runLog[i]) =>
                  \A j \in DOMAIN runLog :
                     j > i => /\ FailedIn(runLog[i]) \cap Stored(runLog[j].before) = {}
                              /\ FailedIn(runLog[i]) \cap Stored(runLog[j].after) = {}
                              /\ FailedIn(runLog[i]) \cap SeqRange(runLog[j].loaded) = {}
            /\ ~AnyHealthy(runLog[i]) => runLog[i].after = runLog[i].before

\* a run that found one source healthy and one broken, then a later run that
\* loaded the healthy one alone
C30_Witness ==
    /\ Len(runLog) >= 2
    /\ runLog[1].before.kind = "json"
    /\ AnyHealthy(runLog[1])
    /\ FailedIn(runLog[1]) # {}
    /\ Len(runLog[2].loaded) = 1

(* C27: in every success response of trigger_crawl the 'platforms' list and  *)
(* the 'failed_platforms' list are disjoint and together contain exactly the *)
(* targeted platform IDs, whatever mix of network errors, bad statuses and   *)
(* malformed item lists the attempts encounter.                              *)
C27_PlatformsPartition ==
    (crawlPc = "done" /\ crawlResponse.success) =>
        /\ crawlResponse.platforms \cap SeqToSet(crawlResponse.failed_platforms) = {}
        /\ crawlResponse.platforms \cup SeqToSet(crawlResponse.failed_platforms)
              = SeqToSet(ids)

(* C24: in fuzzy search mode every result returned by search_news has a      *)
(* similarity_score greater than or equal to the threshold in force (the     *)
(* caller's value clamped into [0,1]); titles scoring below the threshold    *)
(* are filtered out.                                                         *)
C24_ScoreAtLeastThreshold ==
    (/\ uniRet.kind = "done"
     /\ uniRet.result.success
     /\ uniCall.search_mode = "fuzzy") =>
        \A i \in DOMAIN uniRet.result.results :
            FracGe(Frac(uniRet.result.results[i].similarity_score, 10000),
                   ClampThreshold(uniCall.threshold))

\* the call runs on: a pass of the loop, or the code after it, is taken when
\* it can be
SpecUnifiedLive ==
    Init /\ [][UnifiedNext]_vars /\ WF_vars(UnifiedDay) /\ WF_vars(UnifiedFinish)

\* the days from first to last, ascending
DaysFrom(first, last) == [i \in 1..(last - first + 1) |-> first + i - 1]

\* the days of the range are visited once each in ascending order, a day
\* without data neither ends the loop nor fails the query, and the matches
\* of every day with data are collected
C25_DaysVisited ==
    /\ uniPc = "loop" => uniVisited = DaysFrom(uniCall.start_date, uniDate - 1)
    /\ (uniRet.kind = "done" /\ uniRet.looped) =>
          /\ uniCall.start_date <= uniCall.end_date
          /\ uniVisited = DaysFrom(uniCall.start_date, uniCall.end_date)
          /\ Len(uniVisited) = uniCall.end_date - uniCall.start_date + 1
          /\ uniRet.result.success
          /\ \A d \in uniCall.start_date..uniCall.end_date :
                uniCall.files[d] # NoDayData =>
                    SeqToSet(uniCall.found[d]) \subseteq SeqToSet(all_matches)

====
